---- MODULE Spec2Model ----
(***************************************************************************)
(* Rack firmware handlers (crates/api/src/handlers/rack_firmware.rs):      *)
(* create / delete / apply and the detached download run that create       *)
(* spawns.                                                                 *)
(*                                                                         *)
(* Strings whose inner structure the code inspects (URLs, SKU ids,         *)
(* variants, lookup keys) are sequences of atoms, so that split('/'),      *)
(* split(','), trim, to_lowercase and format! are computed, not assumed.   *)
(* Option<T> is a set with at most one element: None == {}, Some(x) ==     *)
(* {x}.  A JSON object is a record; a missing key is a missing field.      *)
(***************************************************************************)
EXTENDS Integers, Sequences, FiniteSets, TLC

None == {}

Some(x) == {x}

Unwrap(o) == CHOOSE x \in o : TRUE

\* Option::unwrap_or
UnwrapOr(o, d) == IF o = {} THEN d ELSE Unwrap(o)

\* serde_json Value::get(key) followed by as_str / as_array
Get(obj, key) == IF key \in DOMAIN obj THEN Some(obj[key]) ELSE None

\* str::split(sep): the pieces between separators; never empty (at least one
\* piece, possibly the empty string).
RECURSIVE SplitFrom(_, _, _)
SplitFrom(s, sep, cur) ==
    IF s = <<>> THEN <<cur>>
    ELSE IF Head(s) = sep THEN <<cur>> \o SplitFrom(Tail(s), sep, <<>>)
         ELSE SplitFrom(Tail(s), sep, Append(cur, Head(s)))

Split(s, sep) == SplitFrom(s, sep, <<>>)

\* url.split('/').next_back(): the final path segment, always Some.
NextBack(pieces) == IF pieces = <<>> THEN None ELSE Some(pieces[Len(pieces)])

RECURSIVE TrimStart(_)
TrimStart(s) ==
    IF s # <<>> /\ Head(s) = " " THEN TrimStart(Tail(s)) ELSE s

RECURSIVE TrimEnd(_)
TrimEnd(s) ==
    IF s # <<>> /\ s[Len(s)] = " " THEN TrimEnd(SubSeq(s, 1, Len(s) - 1)) ELSE s

Trim(s) == TrimEnd(TrimStart(s))

\* char-wise lowercase of the atoms that carry case in the modelled inputs
LowerAtom(a) ==
    CASE a = "Prod" -> "prod"
      [] a = "PROD" -> "prod"
      [] a = "Dev" -> "dev"
      [] a = "DEV" -> "dev"
      [] OTHER -> a

ToLowercase(s) == [i \in 1..Len(s) |-> LowerAtom(s[i])]

(***************************************************************************)
(* Manifest parser                                                         *)
(***************************************************************************)

ParseLocation(location) ==
    [location |-> UnwrapOr(Get(location, "Location"), <<>>),
     location_type |-> UnwrapOr(Get(location, "LocationType"), ""),
     firmware_type |-> Get(location, "Type")]

\* A parser that keeps the locations of every type.
RECURSIVE ParseLocationsAll(_)
ParseLocationsAll(arr) ==
    IF arr = <<>> THEN <<>>
    ELSE <<ParseLocation(Head(arr))>> \o ParseLocationsAll(Tail(arr))

\* Only locations with Type: "Firmware" are kept.
RECURSIVE ParseLocations(_)
ParseLocations(arr) ==
    IF arr = <<>> THEN <<>>
    ELSE IF Get(Head(arr), "Type") # Some("Firmware")
         THEN ParseLocations(Tail(arr))
         ELSE <<ParseLocation(Head(arr))>> \o ParseLocations(Tail(arr))

RECURSIVE ParseSubComponents(_)
ParseSubComponents(arr) ==
    IF arr = <<>> THEN <<>>
    ELSE LET sub_component == UnwrapOr(Get(Head(arr), "Component"), "")
             sub_version == UnwrapOr(Get(Head(arr), "Version"), "")
         IN  IF sub_component # "" /\ sub_version # ""
             THEN <<[component |-> sub_component, version |-> sub_version,
                     skuid |-> Get(Head(arr), "SKUID")]>>
                  \o ParseSubComponents(Tail(arr))
             ELSE ParseSubComponents(Tail(arr))

ParseFirmware(firmware) ==
    [component |-> UnwrapOr(Get(firmware, "Component"), ""),
     bundle |-> Get(firmware, "Bundle"),
     version |-> Get(firmware, "Version"),
     component_type |-> Get(firmware, "Type"),
     locations |-> ParseLocations(UnwrapOr(Get(firmware, "Locations"), <<>>)),
     subcomponents |->
         ParseSubComponents(UnwrapOr(Get(firmware, "SubComponents"), <<>>))]

ParseBoard(board_sku) ==
    LET firmware_array ==
            IF "Components" \in DOMAIN board_sku
            THEN Get(board_sku.Components, "Firmware")
            ELSE None
        firmware_list == UnwrapOr(firmware_array, <<>>)
    IN  [sku_id |-> UnwrapOr(Get(board_sku, "SKUID"), <<>>),
         name |-> UnwrapOr(Get(board_sku, "Name"), ""),
         sku_type |-> UnwrapOr(Get(board_sku, "Type"), ""),
         firmware_components |->
             [i \in 1..Len(firmware_list) |-> ParseFirmware(firmware_list[i])]]

\* A parser that also fails on a board that has no SKUID.
parse_rack_firmware_jsonStrict(config) ==
    IF "BoardSKUs" \notin DOMAIN config THEN None
    ELSE IF \E i \in 1..Len(config.BoardSKUs) : "SKUID" \notin DOMAIN config.BoardSKUs[i]
    THEN None
    ELSE Some([board_skus |->
                  [i \in 1..Len(config.BoardSKUs) |-> ParseBoard(config.BoardSKUs[i])]])

\* Result<ParsedFirmwareComponents, String>: Some(parsed) is Ok, None is Err.
parse_rack_firmware_json(config) ==
    IF "BoardSKUs" \notin DOMAIN config THEN None
    ELSE Some([board_skus |->
                  [i \in 1..Len(config.BoardSKUs) |-> ParseBoard(config.BoardSKUs[i])]])

(***************************************************************************)
(* Device classifier and the static per-device-type tables                 *)
(***************************************************************************)

GB200_COMPUTE_TRAY_SKUIDS ==
    {<<"699-24764-0001-TS3">>, <<"699-24764-0001-TS1">>}

JULIET_SWITCH_SKUIDS ==
    {<<"920-9K36F-00MV-QS1">>, <<"692-9K36F-00MV-JQS">>, <<"920-9K36F-B4MV-QS1">>,
     <<"692-9K36F-B4MV-JD0">>, <<"920-9K36F-A5MV-QS1">>, <<"692-9K36F-A5MV-JQS">>,
     <<"920-9K36N-00MV-QS1">>, <<"692-9K36N-00MV-JQS">>, <<"920-9K36N-09MV-QS1">>,
     <<"692-9K36N-09MV-JSO">>}

\* A classifier that looks at the first token only.
ClassifyTokensFirstOnly(skuids) ==
    IF skuids = <<>> THEN "Unknown"
    ELSE IF Head(skuids) \in GB200_COMPUTE_TRAY_SKUIDS THEN "GB200ComputeTray"
    ELSE IF Head(skuids) \in JULIET_SWITCH_SKUIDS THEN "JulietSwitch"
    ELSE "Unknown"

\* The first token, in order, that is in either list decides.
RECURSIVE ClassifyTokens(_)
ClassifyTokens(skuids) ==
    IF skuids = <<>> THEN "Unknown"
    ELSE IF Head(skuids) \in GB200_COMPUTE_TRAY_SKUIDS THEN "GB200ComputeTray"
    ELSE IF Head(skuids) \in JULIET_SWITCH_SKUIDS THEN "JulietSwitch"
    ELSE ClassifyTokens(Tail(skuids))

get_device_type_from_skuid(sku_id) ==
    LET pieces == Split(sku_id, ",")
    IN  ClassifyTokens([i \in 1..Len(pieces) |-> Trim(pieces[i])])

\* Vec of (component_name_to_match, lookup_key, target)
get_firmware_components_for_device_type(device_type) ==
    CASE device_type = "GB200ComputeTray" ->
            <<<<"HMC", "HMC", "/redfish/v1/Chassis/HGX_Chassis_0">>,
              <<"BMC", "BMC", "FW_BMC_0">>>>
      [] device_type = "JulietSwitch" ->
            <<<<"BMC+FPGA+EROT", "BMC", "bmc">>,
              <<"BMC+FPGA+EROT", "FPGA", "fpga">>,
              <<"BMC+FPGA+EROT", "EROT", "erot">>,
              <<"SBIOS+EROT", "BIOS", "bios">>>>
      [] device_type = "PowerShelf" ->
            <<<<"Power Shelf FW", "PowerShelfFW", "TODO_POWERSHELF_TARGET">>>>
      [] OTHER -> <<>>

get_firmware_flash_order(device_type_key) ==
    CASE device_type_key = "Switch Tray" -> <<"bmc", "fpga", "erot", "bios">>
      [] device_type_key = "Compute Node" ->
            <<"/redfish/v1/Chassis/HGX_Chassis_0", "FW_BMC_0">>
      [] OTHER -> <<>>

(***************************************************************************)
(* Lookup table builder.  A HashMap is a function on its key set.          *)
(***************************************************************************)

EmptyMap == [k \in {} |-> {}]

\* HashMap::insert: a later insert under the same key replaces the entry.
MapInsert(m, key, val) ==
    [k \in DOMAIN m \cup {key} |-> IF k = key THEN val ELSE m[k]]

\* A key that leaves the variant out.
TypedKeyUntyped(lookup_key, fw_type) == <<lookup_key>>

\* format!("{}_{}", lookup_key, fw_type)
TypedKey(lookup_key, fw_type) == <<lookup_key, "_">> \o fw_type

\* The variant as the manifest writes it.
FwTypeAsWritten(firmware_component) ==
    IF firmware_component.component_type = None THEN <<"prod">>
    ELSE Unwrap(firmware_component.component_type)

\* component_type lowercased, "prod" when unspecified
FwType(firmware_component) ==
    IF firmware_component.component_type = None THEN <<"prod">>
    ELSE ToLowercase(Unwrap(firmware_component.component_type))

\* The first triple whose name matches, None if there is none (the loop
\* over the triples breaks at the first match).
RECURSIVE FirstTriple(_, _)
FirstTriple(triples, component_name) ==
    IF triples = <<>> THEN None
    ELSE IF Head(triples)[1] = component_name THEN Some(Head(triples))
    ELSE FirstTriple(Tail(triples), component_name)

\* The filename of the first location typed "Firmware" (the final path
\* segment of its URL), None if the component has no such location.
RECURSIVE FirstFirmwareFilename(_)
FirstFirmwareFilename(locations) ==
    IF locations = <<>> THEN None
    ELSE IF Head(locations).firmware_type = Some("Firmware")
              /\ NextBack(Split(Head(locations).location, "/")) # None
         THEN NextBack(Split(Head(locations).location, "/"))
         ELSE FirstFirmwareFilename(Tail(locations))

LookupEntry(firmware_component, filename, target) ==
    [filename |-> filename,
     target |-> target,
     component |-> firmware_component.component,
     bundle |-> UnwrapOr(firmware_component.bundle, ""),
     firmware_type |-> FwType(firmware_component),
     version |-> firmware_component.version,
     subcomponents |-> firmware_component.subcomponents]

\* One iteration of the loop over a board's firmware components, on the
\* main device map.
DeviceStep(device_components, firmware_component, components_to_extract) ==
    LET triple == FirstTriple(components_to_extract, firmware_component.component)
        filename == FirstFirmwareFilename(firmware_component.locations)
    IN  IF triple = None \/ filename = None THEN device_components
        ELSE MapInsert(device_components,
                       TypedKey(Unwrap(triple)[2], FwType(firmware_component)),
                       LookupEntry(firmware_component, Unwrap(filename),
                                   Unwrap(triple)[3]))

\* The same iteration on the Power Shelf map: the entry has an empty filename.
PowerShelfStep(power_shelf_device_components, firmware_component, power_shelf_components) ==
    LET triple == FirstTriple(power_shelf_components, firmware_component.component)
    IN  IF triple = None THEN power_shelf_device_components
        ELSE MapInsert(power_shelf_device_components,
                       TypedKey(Unwrap(triple)[2], FwType(firmware_component)),
                       LookupEntry(firmware_component, <<>>, Unwrap(triple)[3]))

RECURSIVE FoldDevice(_, _, _)
FoldDevice(acc, comps, triples) ==
    IF comps = <<>> THEN acc
    ELSE FoldDevice(DeviceStep(acc, Head(comps), triples), Tail(comps), triples)

RECURSIVE FoldPowerShelf(_, _, _)
FoldPowerShelf(acc, comps, triples) ==
    IF comps = <<>> THEN acc
    ELSE FoldPowerShelf(PowerShelfStep(acc, Head(comps), triples), Tail(comps), triples)

DeviceKey(device_type) ==
    CASE device_type = "GB200ComputeTray" -> "Compute Node"
      [] device_type = "JulietSwitch" -> "Switch Tray"
      [] device_type = "PowerShelf" -> "Power Shelf"

\* An iteration that stores the Power Shelf map only next to a device map.
BoardStepShelfWithDevice(devices, board_sku) ==
    LET device_type == get_device_type_from_skuid(board_sku.sku_id)
        device_components ==
            FoldDevice(EmptyMap, board_sku.firmware_components,
                       get_firmware_components_for_device_type(device_type))
        power_shelf_device_components ==
            FoldPowerShelf(EmptyMap, board_sku.firmware_components,
                           IF device_type = "GB200ComputeTray"
                           THEN get_firmware_components_for_device_type("PowerShelf")
                           ELSE <<>>)
    IN  IF device_type = "Unknown" \/ DOMAIN device_components = {} THEN devices
        ELSE IF DOMAIN power_shelf_device_components # {}
             THEN MapInsert(MapInsert(devices, DeviceKey(device_type), device_components),
                            "Power Shelf", power_shelf_device_components)
             ELSE MapInsert(devices, DeviceKey(device_type), device_components)

\* An iteration that stores the device map of a known board even when empty.
BoardStepKeepEmpty(devices, board_sku) ==
    LET device_type == get_device_type_from_skuid(board_sku.sku_id)
        device_components ==
            FoldDevice(EmptyMap, board_sku.firmware_components,
                       get_firmware_components_for_device_type(device_type))
        power_shelf_device_components ==
            FoldPowerShelf(EmptyMap, board_sku.firmware_components,
                           IF device_type = "GB200ComputeTray"
                           THEN get_firmware_components_for_device_type("PowerShelf")
                           ELSE <<>>)
        with_device == MapInsert(devices, DeviceKey(device_type), device_components)
    IN  IF device_type = "Unknown" THEN devices
        ELSE IF DOMAIN power_shelf_device_components # {}
             THEN MapInsert(with_device, "Power Shelf", power_shelf_device_components)
             ELSE with_device

\* One iteration of the loop over the boards.
BoardStep(devices, board_sku) ==
    LET device_type == get_device_type_from_skuid(board_sku.sku_id)
        components_to_extract == get_firmware_components_for_device_type(device_type)
        power_shelf_components ==
            IF device_type = "GB200ComputeTray"
            THEN get_firmware_components_for_device_type("PowerShelf")
            ELSE <<>>
        device_components ==
            FoldDevice(EmptyMap, board_sku.firmware_components, components_to_extract)
        power_shelf_device_components ==
            FoldPowerShelf(EmptyMap, board_sku.firmware_components,
                           power_shelf_components)
        with_device ==
            IF DOMAIN device_components # {}
            THEN MapInsert(devices, DeviceKey(device_type), device_components)
            ELSE devices
    IN  IF device_type = "Unknown" THEN devices
        ELSE IF DOMAIN power_shelf_device_components # {}
             THEN MapInsert(with_device, "Power Shelf", power_shelf_device_components)
             ELSE with_device

RECURSIVE FoldBoards(_, _)
FoldBoards(devices, boards) ==
    IF boards = <<>> THEN devices
    ELSE FoldBoards(BoardStep(devices, Head(boards)), Tail(boards))

build_firmware_lookup_table(parsed_components) ==
    [devices |-> FoldBoards(EmptyMap, parsed_components.board_skus)]

(***************************************************************************)
(* Inputs: firmware ids, URLs, manifests, create requests                  *)
(***************************************************************************)

\* create() calls the model follows (rejected calls included)
MaxCalls == 2

FirmwareIds == {"fw1"}

UrlA == <<"https:", "/", "/", "host", "/", "fw", "/", "hmc.fwpkg">>

UrlB == <<"https:", "/", "/", "host", "/", "fw", "/", "bmc.fwpkg">>

UrlCert == <<"https:", "/", "/", "host", "/", "fw", "/", "hmc.cert">>

\* a URL whose final path segment is empty
UrlSlash == <<"https:", "/", "/", "host", "/", "fw", "/">>

JsonLocation(url, type) ==
    [Location |-> url, LocationType |-> "HTTPS", Type |-> type]

\* a firmware component with its variant stated
JsonFirmware(component, variant, locations) ==
    [Component |-> component, Bundle |-> "P4975", Version |-> "1.0",
     Type |-> variant, Locations |-> locations]

\* a firmware component with no variant and no version
JsonFirmwareBare(component, locations) ==
    [Component |-> component, Locations |-> locations]

JsonBoard(skuid, firmware) ==
    [SKUID |-> skuid, Name |-> "board", Type |-> "Board",
     Components |-> [Firmware |-> firmware]]

ComputeSku == <<"699-24764-0001-TS3", ",", " ", "999-FOO">>

\* one compute-tray board, HMC with a Firmware and a Certificate location
ManifestOne(id) ==
    [Id |-> id,
     BoardSKUs |-> <<JsonBoard(ComputeSku,
         <<JsonFirmware("HMC", <<"Prod">>,
               <<JsonLocation(UrlCert, "Certificate"),
                 JsonLocation(UrlA, "Firmware")>>)>>)>>]

\* one compute-tray board exposing HMC(prod) and BMC(prod), one location each
ManifestTwo(id) ==
    [Id |-> id,
     BoardSKUs |-> <<JsonBoard(ComputeSku,
         <<JsonFirmware("HMC", <<"Prod">>, <<JsonLocation(UrlA, "Firmware")>>),
           JsonFirmwareBare("BMC", <<JsonLocation(UrlB, "Firmware")>>)>>)>>]

\* a location whose URL ends in '/'
ManifestSlash(id) ==
    [Id |-> id,
     BoardSKUs |-> <<JsonBoard(ComputeSku,
         <<JsonFirmware("HMC", <<"Prod">>, <<JsonLocation(UrlSlash, "Firmware")>>)>>)>>]

\* valid JSON with an Id and no BoardSKUs array
ManifestNoBoards(id) == [Id |-> id]

SwitchSku == <<"920-9K36F-00MV-QS1">>

UrlC == <<"https:", "/", "/", "host", "/", "fw", "/", "switch-bmc.fwpkg">>

UrlD == <<"https:", "/", "/", "host", "/", "fw", "/", "switch-bios.fwpkg">>

\* a compute-tray board with HMC, BMC(dev) and Power Shelf FW(prod), and a
\* switch board with SBIOS+EROT(prod) and BMC+FPGA+EROT(prod)
ManifestBoards(id, hmc_type) ==
    [Id |-> id,
     BoardSKUs |-> <<
         JsonBoard(ComputeSku,
             <<JsonFirmware("HMC", <<hmc_type>>, <<JsonLocation(UrlA, "Firmware")>>),
               JsonFirmware("BMC", <<"Dev">>, <<JsonLocation(UrlB, "Firmware")>>),
               JsonFirmware("Power Shelf FW", <<"Prod">>, <<>>)>>),
         JsonBoard(SwitchSku,
             <<JsonFirmware("SBIOS+EROT", <<"Prod">>, <<JsonLocation(UrlD, "Firmware")>>),
               JsonFirmware("BMC+FPGA+EROT", <<"Prod">>,
                   <<JsonLocation(UrlC, "Firmware")>>)>>)>>]

\* every bucket has a prod entry
ManifestRack(id) == ManifestBoards(id, "Prod")

\* the compute bucket has dev entries only
ManifestRackDev(id) == ManifestBoards(id, "Dev")

Manifests(id) ==
    {ManifestOne(id), ManifestTwo(id), ManifestSlash(id), ManifestNoBoards(id)}

\* RackFirmwareCreateRequest: config_json is None when it is not valid JSON.
CreateRequests(id) ==
    {[config_json |-> Some(m), artifactory_token |-> "token"] : m \in Manifests(id)}
    \cup {[config_json |-> None, artifactory_token |-> "token"],
          [config_json |-> Some([Name |-> "no id"]), artifactory_token |-> "token"],
          [config_json |-> Some(ManifestOne(id)), artifactory_token |-> ""]}

(***************************************************************************)
(* State                                                                   *)
(***************************************************************************)

VARIABLES
    db,        \* rack_firmware table: id -> Option<record>
    vault,     \* credential store: id -> Option<token>
    fs,        \* cache: id -> [dir: the cache directory exists, files: names in it]
    calls,     \* one entry per create() call: its response and the run it spawned
    rms_client,\* api.rms_client is configured
    apply      \* the apply() call in progress or last answered

vars == <<db, vault, fs, calls, rms_client, apply>>

Calls == 1..Len(calls)

Init ==
    /\ db = [id \in FirmwareIds |-> None]
    /\ vault = [id \in FirmwareIds |-> None]
    /\ fs = [id \in FirmwareIds |-> [dir |-> FALSE, files |-> {}]]
    /\ calls = <<>>
    /\ rms_client \in BOOLEAN
    /\ apply = [pc |-> "idle"]

(***************************************************************************)
(* The table behind db::rack_firmware                                      *)
(***************************************************************************)

\* DbRackFirmware::create: the new row, not yet available
DbCreate(id, config, parsed_components) ==
    [id |-> id, config |-> config, parsed_components |-> parsed_components,
     available |-> FALSE, updated |-> 0]

\* The update split in two statements of which only the flag is written.
DbMarkAvailableFlagOnly(table, id, lookup_json) ==
    IF table[id] = None THEN table
    ELSE [table EXCEPT ![id] =
             Some([Unwrap(table[id]) EXCEPT !.available = TRUE, !.updated = @ + 1])]

\* An update that inserts the row when the id is gone.
DbMarkAvailableUpsert(table, id, lookup_json) ==
    [table EXCEPT ![id] =
        IF table[id] = None
        THEN Some([id |-> id, config |-> [Id |-> id],
                   parsed_components |-> Some(lookup_json),
                   available |-> TRUE, updated |-> 0])
        ELSE Some([Unwrap(table[id]) EXCEPT !.parsed_components = Some(lookup_json),
                                            !.available = TRUE,
                                            !.updated = @ + 1])]

\* UPDATE rack_firmware SET parsed_components = $2, available = true,
\* updated = NOW() WHERE id = $1: one statement, no row when the id is gone
DbMarkAvailable(table, id, lookup_json) ==
    IF table[id] = None THEN table
    ELSE [table EXCEPT ![id] =
             Some([Unwrap(table[id]) EXCEPT !.parsed_components = Some(lookup_json),
                                            !.available = TRUE,
                                            !.updated = @ + 1])]

(***************************************************************************)
(* create                                                                  *)
(***************************************************************************)

\* the locations of the parsed manifest, in the order of the three nested
\* loops (board, component, location)
RECURSIVE Flatten(_)
Flatten(ss) == IF ss = <<>> THEN <<>> ELSE Head(ss) \o Flatten(Tail(ss))

ComponentLocations(board_sku) ==
    Flatten([i \in 1..Len(board_sku.firmware_components) |->
                board_sku.firmware_components[i].locations])

AllLocations(parsed_components) ==
    Flatten([i \in 1..Len(parsed_components.board_skus) |->
                ComponentLocations(parsed_components.board_skus[i])])

NoRun ==
    [pc |-> "none", parsed |-> None, token |-> "", units |-> <<>>,
     successful_downloads |-> 0, failed_downloads |-> 0, requests |-> 0,
     result |-> "none"]

\* spawn_firmware_download_task: the task exists and has not run yet
SpawnedRun(parsed_struct) ==
    [NoRun EXCEPT !.pc = "spawned", !.parsed = Some(parsed_struct)]

CallEntry(id, resp, run) == [id |-> id, resp |-> resp, run |-> run]

\* the id a request names, None when the JSON is invalid or has no "Id"
RequestId(req) ==
    IF req.config_json = None THEN None ELSE Get(Unwrap(req.config_json), "Id")

\* A create() that spawns the run of a parsed manifest before the record
\* is stored.
CreateHandlerSpawningFirst(req, outcome) ==
    LET config == Unwrap(req.config_json)
        id == Unwrap(RequestId(req))
        parsed == parse_rack_firmware_json(config)
        db_config == DbCreate(id, config, parsed)
        run == IF parsed # None THEN SpawnedRun(Unwrap(parsed)) ELSE NoRun
    IN  IF req.config_json = None \/ RequestId(req) = None
           \/ req.artifactory_token = ""
        THEN /\ calls' = Append(calls,
                    CallEntry(None, [code |-> "invalid_argument"], NoRun))
             /\ UNCHANGED <<db, vault, fs, rms_client, apply>>
        ELSE IF outcome = "vault_err"
        THEN /\ calls' = Append(calls, CallEntry(Some(id), [code |-> "internal"], NoRun))
             /\ UNCHANGED <<db, vault, fs, rms_client, apply>>
        ELSE IF outcome = "db_err"
        THEN /\ vault' = [vault EXCEPT ![id] = Some(req.artifactory_token)]
             /\ calls' = Append(calls, CallEntry(Some(id), [code |-> "internal"], run))
             /\ UNCHANGED <<db, fs, rms_client, apply>>
        ELSE /\ vault' = [vault EXCEPT ![id] = Some(req.artifactory_token)]
             /\ db' = [db EXCEPT ![id] = Some(db_config)]
             /\ calls' = Append(calls,
                    CallEntry(Some(id), [code |-> "ok", config |-> db_config], run))
             /\ UNCHANGED <<fs, rms_client, apply>>

\* create(): outcome is what the collaborators answer ("ok", "vault_err",
\* "db_err"); it is read only when the request passes validation.
CreateHandler(req, outcome) ==
    LET config == Unwrap(req.config_json)
        id == Unwrap(RequestId(req))
        parsed == parse_rack_firmware_json(config)
        db_config == DbCreate(id, config, parsed)
    IN  IF req.config_json = None \/ RequestId(req) = None
           \/ req.artifactory_token = ""
        THEN /\ calls' = Append(calls,
                    CallEntry(None, [code |-> "invalid_argument"], NoRun))
             /\ UNCHANGED <<db, vault, fs, rms_client, apply>>
        ELSE IF outcome = "vault_err"
        THEN /\ calls' = Append(calls, CallEntry(Some(id), [code |-> "internal"], NoRun))
             /\ UNCHANGED <<db, vault, fs, rms_client, apply>>
        ELSE IF outcome = "db_err"
        THEN /\ vault' = [vault EXCEPT ![id] = Some(req.artifactory_token)]
             /\ calls' = Append(calls, CallEntry(Some(id), [code |-> "internal"], NoRun))
             /\ UNCHANGED <<db, fs, rms_client, apply>>
        ELSE /\ vault' = [vault EXCEPT ![id] = Some(req.artifactory_token)]
             /\ db' = [db EXCEPT ![id] = Some(db_config)]
             /\ calls' = Append(calls,
                    CallEntry(Some(id), [code |-> "ok", config |-> db_config],
                              IF db_config.parsed_components # None
                              THEN SpawnedRun(Unwrap(db_config.parsed_components))
                              ELSE NoRun))
             /\ UNCHANGED <<fs, rms_client, apply>>

\* ids for which some create() has already stored a record
Submitted == {Unwrap(calls[n].id) : n \in {m \in Calls : calls[m].resp.code = "ok"}}

AllCreateRequests == UNION {CreateRequests(id) : id \in FirmwareIds}

CreateOutcomes == {"ok", "vault_err", "db_err"}

\* A create() call.  Callers submit each id once (ids are unique per
\* submission); a request that names no id is rejected whenever it comes.
Create ==
    /\ Len(calls) < MaxCalls
    /\ \E req \in AllCreateRequests :
          /\ RequestId(req) # None => Unwrap(RequestId(req)) \notin Submitted
          /\ \E outcome \in CreateOutcomes : CreateHandler(req, outcome)

\* A create() call that submits again, unchanged, the manifest of a config
\* that was deleted, after every run of that id has ended.
Resubmit ==
    /\ Len(calls) < MaxCalls
    /\ \E n \in 1..MaxCalls, req \in AllCreateRequests :
          /\ n <= Len(calls)
          /\ calls[n].resp.code = "ok"
          /\ \A k \in Calls :
                calls[k].id = calls[n].id => calls[k].run.pc \in {"none", "done"}
          /\ RequestId(req) = calls[n].id
          /\ Unwrap(req.config_json) = calls[n].resp.config.config
          /\ req.artifactory_token # ""
          /\ db[Unwrap(calls[n].id)] = None
          /\ \E outcome \in CreateOutcomes : CreateHandler(req, outcome)

(***************************************************************************)
(* delete                                                                  *)
(***************************************************************************)

\* delete() that also aborts the download runs of the id it deletes.
DeleteCancellingRun ==
    \E id \in FirmwareIds :
       /\ db[id] # None
       /\ db' = [db EXCEPT ![id] = None]
       /\ calls' = [n \in 1..Len(calls) |->
                       IF calls[n].id = Some(id) /\ calls[n].run.pc \notin {"none", "done"}
                       THEN [calls[n] EXCEPT !.run.pc = "cancelled"]
                       ELSE calls[n]]
       /\ UNCHANGED <<vault, fs, rms_client, apply>>

\* delete(): the row goes; the vault entry and the cache directory stay.
Delete ==
    \E id \in FirmwareIds :
       /\ db[id] # None
       /\ db' = [db EXCEPT ![id] = None]
       /\ UNCHANGED <<vault, fs, calls, rms_client, apply>>

(***************************************************************************)
(* The background run: download_firmware_files                             *)
(***************************************************************************)

UNAUTHORIZED == 401

Statuses == {200, UNAUTHORIZED, 404}

\* what send().await gives: Ok(response with a status) or Err (transport)
HttpOk(status) == [ok |-> TRUE, status |-> status]

HttpErr == [ok |-> FALSE, status |-> 0]

Responses == {HttpOk(status) : status \in Statuses} \cup {HttpErr}

\* StatusCode::is_success
IsSuccess(status) == status >= 200 /\ status < 300

\* A fetch unit: its position, the X-JFrog-Art-Api header (None when
\* absent) of each request it has sent, each answer it has received, whether
\* it wrote its file, and its result once join_next has taken it.
NewUnit(location) ==
    [url |-> location.location, pc |-> "spawned", hdrs |-> <<>>, resps |-> <<>>,
     wrote |-> FALSE, outcome |-> "none"]

Terminal == {"ok", "err", "panic"}

\* what join_next leaves of a unit: its result
JoinedUnit(unit) ==
    [unit EXCEPT !.pc = "joined", !.hdrs = <<>>, !.resps = <<>>, !.wrote = FALSE,
                 !.outcome = unit.pc]

RunOf(n) == calls[n].run

RunId(n) == Unwrap(calls[n].id)

SetRun(n, run) == calls' = [calls EXCEPT ![n].run = run]

SetUnit(n, u, unit) == calls' = [calls EXCEPT ![n].run.units[u] = unit]

RunEnd(run, result) == [run EXCEPT !.pc = "done", !.result = result]

\* get_credentials: the stored token, "" when none is stored; an error of
\* the store ends the run.
RunGetCredentials(n) ==
    /\ RunOf(n).pc = "spawned"
    /\ \E ok \in BOOLEAN :
          IF ok
          THEN SetRun(n, [RunOf(n) EXCEPT !.pc = "mkdir",
                                         !.token = UnwrapOr(vault[RunId(n)], "")])
          ELSE SetRun(n, RunEnd(RunOf(n), "Failed to get token from Vault"))
    /\ UNCHANGED <<db, vault, fs, rms_client, apply>>

\* create_dir_all, then one task_set.spawn per location of the manifest
RunSpawnUnits(n) ==
    /\ RunOf(n).pc = "mkdir"
    /\ \E ok \in BOOLEAN :
          IF ok
          THEN LET locations == AllLocations(Unwrap(RunOf(n).parsed))
               IN  /\ fs' = [fs EXCEPT ![RunId(n)].dir = TRUE]
                   /\ SetRun(n, [RunOf(n) EXCEPT
                          !.pc = "join",
                          !.units = [i \in 1..Len(locations) |-> NewUnit(locations[i])]])
          ELSE /\ SetRun(n, RunEnd(RunOf(n), "Failed to create cache directory"))
               /\ UNCHANGED fs
    /\ UNCHANGED <<db, vault, rms_client, apply>>

\* firmware_cache_dir.join(filename): the path a unit of the run of
\* firmware_id writes, or finds cached
DestPath(firmware_id, filename) ==
    <<"/forge-boot-artifacts/blobs/internal/fw", "/", "rack_firmware", "/",
      firmware_id, "/">> \o filename

\* A run that never finds a file in its cache directory.
DestExistsNever(id, filename) == FALSE

\* dest_dir.join(filename).exists(): joining the empty name gives the
\* directory itself.
DestExists(id, filename) ==
    IF filename = <<>> THEN fs[id].dir ELSE filename \in fs[id].files

\* url.split('/').next_back()
Filename(url) == NextBack(Split(url, "/"))

\* client.get(&url), with the header when one is given
SendGet(n, u, hdr, next_pc) ==
    calls' = [calls EXCEPT
        ![n].run.units[u].pc = next_pc,
        ![n].run.units[u].hdrs = Append(@, hdr),
        ![n].run.requests = @ + 1]

Received(unit, r) == [unit EXCEPT !.resps = Append(@, r)]

\* download_single_file up to its first await: the filename, the cache
\* check, the client, the first GET (sent without the token header).
UnitBegin(n, u) ==
    LET unit == RunOf(n).units[u]
        filename == Filename(unit.url)
    IN  /\ RunOf(n).pc = "join"
        /\ unit.pc = "spawned"
        /\ \E client_ok \in BOOLEAN :
              IF filename = None THEN
                  SetUnit(n, u, [unit EXCEPT !.pc = "err"])
              ELSE IF DestExists(RunId(n), Unwrap(filename)) THEN
                  SetUnit(n, u, [unit EXCEPT !.pc = "ok"])
              ELSE IF ~client_ok THEN
                  SetUnit(n, u, [unit EXCEPT !.pc = "err"])
              ELSE SendGet(n, u, None, "get1")
        /\ UNCHANGED <<db, vault, fs, rms_client, apply>>

\* a successful response: read the body and write it to the destination;
\* either can fail.
UnitStore(n, u, r, stored) ==
    LET unit == Received(RunOf(n).units[u], r)
    IN  IF stored
        THEN /\ SetUnit(n, u, [unit EXCEPT !.pc = "ok", !.wrote = TRUE])
             /\ fs' = [fs EXCEPT ![RunId(n)].files = @ \cup {Unwrap(Filename(unit.url))}]
        ELSE /\ SetUnit(n, u, [unit EXCEPT !.pc = "err"])
             /\ UNCHANGED fs

UnitFail(n, u, r) ==
    /\ SetUnit(n, u, [Received(RunOf(n).units[u], r) EXCEPT !.pc = "err"])
    /\ UNCHANGED fs

\* the second GET, with the token header
UnitRetry(n, u, r) ==
    /\ calls' = [calls EXCEPT
           ![n].run.units[u] = [Received(RunOf(n).units[u], r) EXCEPT
               !.pc = "get2", !.hdrs = Append(@, Some(RunOf(n).token))],
           ![n].run.requests = @ + 1]
    /\ UNCHANGED fs

\* A first answer after which every unsuccessful status is retried.
UnitFirstResponseRetryAny(n, u) ==
    /\ RunOf(n).pc = "join"
    /\ RunOf(n).units[u].pc = "get1"
    /\ \E r \in Responses, stored \in BOOLEAN :
          IF r.ok /\ IsSuccess(r.status) THEN UnitStore(n, u, r, stored)
          ELSE UnitRetry(n, u, r)
    /\ UNCHANGED <<db, vault, rms_client, apply>>

\* the answer to the first GET
UnitFirstResponse(n, u) ==
    /\ RunOf(n).pc = "join"
    /\ RunOf(n).units[u].pc = "get1"
    /\ \E r \in Responses, stored \in BOOLEAN :
          IF r.ok /\ IsSuccess(r.status) THEN UnitStore(n, u, r, stored)
          ELSE IF r.ok /\ r.status = UNAUTHORIZED THEN UnitRetry(n, u, r)
          ELSE IF r.ok THEN UnitFail(n, u, r)
          ELSE UnitRetry(n, u, r)
    /\ UNCHANGED <<db, vault, rms_client, apply>>

\* the answer to the second GET
UnitSecondResponse(n, u) ==
    /\ RunOf(n).pc = "join"
    /\ RunOf(n).units[u].pc = "get2"
    /\ \E r \in Responses, stored \in BOOLEAN :
          IF r.ok /\ IsSuccess(r.status) THEN UnitStore(n, u, r, stored)
          ELSE UnitFail(n, u, r)
    /\ UNCHANGED <<db, vault, rms_client, apply>>

\* a unit's task panics
UnitPanic(n, u) ==
    /\ RunOf(n).pc = "join"
    /\ RunOf(n).units[u].pc \in {"spawned", "get1", "get2"}
    /\ SetUnit(n, u, [RunOf(n).units[u] EXCEPT !.pc = "panic"])
    /\ UNCHANGED <<db, vault, fs, rms_client, apply>>

\* A tally that counts only the units that returned, not the ones that
\* panicked.
TallyReturnedOnly(run, unit) ==
    IF unit.pc = "ok" THEN [run EXCEPT !.successful_downloads = @ + 1]
    ELSE IF unit.pc = "err" THEN [run EXCEPT !.failed_downloads = @ + 1]
    ELSE run

\* the tally of one join_next result: Ok(Ok(_)), Ok(Err(e)) or Err(join_error)
Tally(run, unit) ==
    IF unit.pc = "ok"
    THEN [run EXCEPT !.successful_downloads = @ + 1]
    ELSE [run EXCEPT !.failed_downloads = @ + 1]

\* task_set.join_next(): the result of a unit that has finished
RunJoinNext(n, u) ==
    /\ RunOf(n).pc = "join"
    /\ RunOf(n).units[u].pc \in Terminal
    /\ SetRun(n, [Tally(RunOf(n), RunOf(n).units[u]) EXCEPT
                     !.units[u] = JoinedUnit(RunOf(n).units[u])])
    /\ UNCHANGED <<db, vault, fs, rms_client, apply>>

\* A run that does not wait for its units.
AllJoinedWithoutWaiting(run) == TRUE

\* join_next() gives None: the set is empty
AllJoined(run) == \A u \in 1..Len(run.units) : run.units[u].pc = "joined"

\* A run that marks the config available whatever it tallied.
ShouldMarkAvailableAlways(run) == TRUE

\* the condition under which the run marks the config available
ShouldMarkAvailable(run) == run.failed_downloads = 0

\* A run whose caller waits for it: a failed transaction is answered to the
\* create() call.
RunFinishAnsweringCaller(n) ==
    /\ RunOf(n).pc = "join"
    /\ AllJoined(RunOf(n))
    /\ \E txn_ok \in BOOLEAN :
          IF RunOf(n).failed_downloads = 0
          THEN IF txn_ok
               THEN /\ db' = DbMarkAvailable(db, RunId(n),
                               build_firmware_lookup_table(Unwrap(RunOf(n).parsed)))
                    /\ SetRun(n, RunEnd(RunOf(n), "Ok"))
               ELSE /\ calls' = [calls EXCEPT
                           ![n].run = RunEnd(RunOf(n), "Failed to commit transaction"),
                           ![n].resp = [code |-> "internal"]]
                    /\ UNCHANGED db
          ELSE /\ SetRun(n, RunEnd(RunOf(n), "Ok"))
               /\ UNCHANGED db
    /\ UNCHANGED <<vault, fs, rms_client, apply>>

\* A run that stores the lookup table, without the flag, also after failures.
RunFinishStoringTable(n) ==
    /\ RunOf(n).pc = "join"
    /\ AllJoined(RunOf(n))
    /\ \E txn_ok \in BOOLEAN :
          IF RunOf(n).failed_downloads = 0
          THEN IF txn_ok
               THEN /\ db' = DbMarkAvailable(db, RunId(n),
                               build_firmware_lookup_table(Unwrap(RunOf(n).parsed)))
                    /\ SetRun(n, RunEnd(RunOf(n), "Ok"))
               ELSE /\ SetRun(n, RunEnd(RunOf(n), "Failed to commit transaction"))
                    /\ UNCHANGED db
          ELSE /\ SetRun(n, RunEnd(RunOf(n), "Ok"))
               /\ db' = IF db[RunId(n)] = None THEN db
                        ELSE [db EXCEPT ![RunId(n)] =
                                 Some([Unwrap(db[RunId(n)]) EXCEPT
                                     !.parsed_components = Some(build_firmware_lookup_table(
                                                                  Unwrap(RunOf(n).parsed))),
                                     !.updated = @ + 1])]
    /\ UNCHANGED <<vault, fs, rms_client, apply>>

\* After the join loop: with no failure, build the lookup table and write
\* it with the flag in one transaction; a failed transaction ends the run
\* with an error.
RunFinish(n) ==
    /\ RunOf(n).pc = "join"
    /\ AllJoined(RunOf(n))
    /\ \E txn_ok \in BOOLEAN :
          IF ShouldMarkAvailable(RunOf(n))
          THEN IF txn_ok
               THEN /\ db' = DbMarkAvailable(db, RunId(n),
                               build_firmware_lookup_table(Unwrap(RunOf(n).parsed)))
                    /\ SetRun(n, RunEnd(RunOf(n), "Ok"))
               ELSE /\ SetRun(n, RunEnd(RunOf(n), "Failed to commit transaction"))
                    /\ UNCHANGED db
          ELSE /\ SetRun(n, RunEnd(RunOf(n), "Ok"))
               /\ UNCHANGED db
    /\ UNCHANGED <<vault, fs, rms_client, apply>>

(***************************************************************************)
(* apply                                                                   *)
(***************************************************************************)

\* The table with the activation step asked of every bucket.
device_typesActivateAll ==
    <<[lookup_key |-> "Compute Node", node_type |-> "Compute",
       display_name |-> "Compute Node", activate |-> TRUE],
      [lookup_key |-> "Power Shelf", node_type |-> "Powershelf",
       display_name |-> "Power Shelf", activate |-> TRUE],
      [lookup_key |-> "Switch Tray", node_type |-> "Switch",
       display_name |-> "Switch", activate |-> TRUE]>>

\* The table with the switch bucket walked before the power-shelf bucket.
device_typesSwitchSecond ==
    <<[lookup_key |-> "Compute Node", node_type |-> "Compute",
       display_name |-> "Compute Node", activate |-> TRUE],
      [lookup_key |-> "Switch Tray", node_type |-> "Switch",
       display_name |-> "Switch", activate |-> FALSE],
      [lookup_key |-> "Power Shelf", node_type |-> "Powershelf",
       display_name |-> "Power Shelf", activate |-> FALSE]>>

\* (lookup_table_key, RMS NodeType, display_name, activate), in the order
\* apply() walks them
device_types ==
    <<[lookup_key |-> "Compute Node", node_type |-> "Compute",
       display_name |-> "Compute Node", activate |-> TRUE],
      [lookup_key |-> "Power Shelf", node_type |-> "Powershelf",
       display_name |-> "Power Shelf", activate |-> FALSE],
      [lookup_key |-> "Switch Tray", node_type |-> "Switch",
       display_name |-> "Switch", activate |-> FALSE]>>

\* has_compute_trays, has_power_shelves, has_switches
HasDevices(rack, i) ==
    CASE i = 1 -> rack.compute_trays # <<>>
      [] i = 2 -> rack.power_shelves # <<>>
      [] i = 3 -> rack.expected_nvlink_switches # <<>>

\* every order in which a HashMap may hand out the keys of S
Orders(S) ==
    {f \in [1..Cardinality(S) -> S] : \A i, j \in 1..Cardinality(S) : f[i] = f[j] => i = j}

\* A lookup that takes the entries of every variant.
find_firmware_components_for_deviceAnyVariant(parsed_components, hardware_type, firmware_type) ==
    IF "devices" \notin DOMAIN parsed_components THEN {<<>>}
    ELSE IF hardware_type \notin DOMAIN parsed_components.devices THEN {<<>>}
    ELSE LET device_components == parsed_components.devices[hardware_type]
             matching == DOMAIN device_components
         IN  {[i \in 1..Cardinality(matching) |->
                  <<f[i], device_components[f[i]].filename,
                    device_components[f[i]].target>>] : f \in Orders(matching)}

\* A lookup that compares the requested variant as it was written.
find_firmware_components_for_deviceCaseSensitive(parsed_components, hardware_type, firmware_type) ==
    IF "devices" \notin DOMAIN parsed_components THEN {<<>>}
    ELSE IF hardware_type \notin DOMAIN parsed_components.devices THEN {<<>>}
    ELSE LET device_components == parsed_components.devices[hardware_type]
             matching == {k \in DOMAIN device_components :
                             device_components[k].firmware_type = firmware_type}
         IN  {[i \in 1..Cardinality(matching) |->
                  <<f[i], device_components[f[i]].filename,
                    device_components[f[i]].target>>] : f \in Orders(matching)}

\* The possible results of find_firmware_components_for_device: the
\* (component_key, filename, target) of the entries of the bucket whose
\* stored variant is the requested one, in the map's iteration order.  A
\* value that is no lookup table gives the empty vector.
find_firmware_components_for_device(parsed_components, hardware_type, firmware_type) ==
    IF "devices" \notin DOMAIN parsed_components THEN {<<>>}
    ELSE IF hardware_type \notin DOMAIN parsed_components.devices THEN {<<>>}
    ELSE LET device_components == parsed_components.devices[hardware_type]
             fw_type == ToLowercase(firmware_type)
             matching == {k \in DOMAIN device_components :
                             ToLowercase(device_components[k].firmware_type) = fw_type}
         IN  {[i \in 1..Cardinality(matching) |->
                  <<f[i], device_components[f[i]].filename,
                    device_components[f[i]].target>>] : f \in Orders(matching)}

\* flash_order.iter().position(|t| t == target)
RECURSIVE PositionFrom(_, _, _)
PositionFrom(order, target, i) ==
    IF i > Len(order) THEN None
    ELSE IF order[i] = target THEN Some(i - 1)
    ELSE PositionFrom(order, target, i + 1)

Position(order, target) == PositionFrom(order, target, 1)

\* A comparison under which the sort keeps the order it was given.
KeyLeqAlways(order, a, b) == TRUE

\* A comparison that puts a target without a position below every position.
KeyLeqAbsentFirst(order, a, b) ==
    LET ka == Position(order, a[3])
        kb == Position(order, b[3])
    IN  IF ka = None THEN TRUE
        ELSE IF kb = None THEN FALSE
        ELSE Unwrap(ka) <= Unwrap(kb)

\* key(a) <= key(b) for the keys position(..).unwrap_or(usize::MAX): a
\* target that has no position compares above every position
KeyLeq(order, a, b) ==
    LET ka == Position(order, a[3])
        kb == Position(order, b[3])
    IN  IF kb = None THEN TRUE
        ELSE IF ka = None THEN FALSE
        ELSE Unwrap(ka) <= Unwrap(kb)

RECURSIVE InsertStable(_, _, _)
InsertStable(sorted, x, order) ==
    IF sorted = <<>> THEN <<x>>
    ELSE IF KeyLeq(order, Head(sorted), x)
         THEN <<Head(sorted)>> \o InsertStable(Tail(sorted), x, order)
         ELSE <<x>> \o sorted

\* sort_by_key (a stable sort) on the flash-order rank of the target
RECURSIVE SortByFlashOrder(_, _)
SortByFlashOrder(components, order) ==
    IF components = <<>> THEN <<>>
    ELSE InsertStable(SortByFlashOrder(SubSeq(components, 1, Len(components) - 1), order),
                      components[Len(components)], order)

\* format!("/forge-boot-artifacts/blobs/internal/fw/rack_firmware/{}/{}", ..)
FullFirmwarePath(firmware_id, filename) ==
    <<"/forge-boot-artifacts/blobs/internal/fw", "/", "rack_firmware", "/",
      firmware_id, "/">> \o filename

FirmwareTargets(firmware_id, firmware_components) ==
    [i \in 1..Len(firmware_components) |->
        [target |-> firmware_components[i][3],
         filename |-> FullFirmwarePath(firmware_id, firmware_components[i][2])]]

FailedResult(rack_id, display_name, message) ==
    [device_id |-> rack_id, device_type |-> display_name, success |-> FALSE,
     message |-> message, job_id |-> "", node_jobs |-> <<>>]

ApplyResponse(st) ==
    [code |-> "ok",
     total_updates |-> Len(st.device_results),
     successful_updates |-> st.successful_updates,
     failed_updates |-> st.failed_updates,
     device_results |-> st.device_results]

\* an answered apply(): what it had read when it answered (None for what it
\* had not read yet: the firmware id whose config it looked up, the rack,
\* the requested variant, the config's parsed_components), its response,
\* the batch requests it sent
ApplyDone(firmware_id, rack, firmware_type, parsed_components, resp, rpcs) ==
    [pc |-> "done", firmware_id |-> firmware_id, rack |-> rack,
     firmware_type |-> firmware_type, parsed_components |-> parsed_components,
     resp |-> resp, rpcs |-> rpcs]

\* return Err(Status): before the loop, with nothing sent
ApplyError(firmware_id, rack, code) ==
    ApplyDone(firmware_id, rack, None, None, [code |-> code], <<>>)

\* apply() without the availability check.
NotAvailableNever(fw_config) == FALSE

\* if !fw_config.available
NotAvailable(fw_config) == ~fw_config.available

\* A failure that is counted and leaves no result.
RecordFailureCountOnly(st, display_name, message) ==
    [st EXCEPT !.failed_updates = @ + 1]

RecordFailure(st, display_name, message) ==
    [st EXCEPT !.device_results =
                   Append(@, FailedResult(st.rack_id, display_name, message)),
               !.failed_updates = @ + 1]

\* The loop over device_types from bucket i up to its next await: the states
\* apply() can be in when it has either sent the batch request of a bucket
\* or left the loop and answered.
RECURSIVE ApplyAdvance(_, _, _)
ApplyAdvance(st, i, client) ==
    IF i > Len(device_types)
    THEN {ApplyDone(st.firmware_id, Some(st.rack), Some(st.firmware_type),
                    Some(st.parsed_components), ApplyResponse(st), st.rpcs)}
    ELSE IF ~HasDevices(st.rack, i) THEN ApplyAdvance(st, i + 1, client)
    ELSE LET d == device_types[i]
             found == find_firmware_components_for_device(
                          st.parsed_components, d.lookup_key, st.firmware_type)
             flash_order == get_firmware_flash_order(d.lookup_key)
             Send(firmware_components) ==
                 [st EXCEPT
                     !.idx = i,
                     !.rpcs = Append(@,
                         [node_type |-> d.node_type,
                          rack_id |-> st.rack_id,
                          firmware_targets |->
                              FirmwareTargets(Unwrap(st.firmware_id), firmware_components),
                          activate |-> d.activate,
                          answer |-> None])]
         IN  UNION {
                 LET firmware_components == SortByFlashOrder(unsorted, flash_order)
                 IN  IF firmware_components = <<>>
                     THEN ApplyAdvance(
                              RecordFailure(st, d.display_name,
                                  <<"No matching firmware found in config for ",
                                    d.display_name>>),
                              i + 1, client)
                     ELSE IF ~client
                     THEN ApplyAdvance(
                              RecordFailure(st, d.display_name,
                                  <<"RMS", " ", "client", " ", "not", " ",
                                    "configured">>),
                              i + 1, client)
                     ELSE {Send(firmware_components)}
                 : unsorted \in found}

\* apply() without the check that the rack holds a device.
EmptyRackNever(rack) == FALSE

\* !has_compute_trays && !has_power_shelves && !has_switches
EmptyRack(rack) == \A i \in 1..Len(device_types) : ~HasDevices(rack, i)

Devices == {<<>>, <<"dev1">>}

\* what db::rack::get can give: a rack, or None when the lookup fails
RackLookups ==
    {Some(r) : r \in [compute_trays : Devices, power_shelves : Devices,
                      expected_nvlink_switches : Devices]} \cup {None}

FirmwareTypes == {<<"prod">>, <<"PROD">>, <<"dev">>}

\* DbRackFirmware::find_by_id: Err when there is no such row
DbFindById(id) == db[id]

ApplyInit(rack_id, firmware_id, firmware_type, fw_config, rack) ==
    [pc |-> "rpc",
     rack_id |-> rack_id,
     firmware_id |-> Some(firmware_id),
     firmware_type |-> firmware_type,
     parsed_components |-> UnwrapOr(fw_config.parsed_components, EmptyMap),
     rack |-> rack,
     idx |-> 0,
     device_results |-> <<>>,
     successful_updates |-> 0,
     failed_updates |-> 0,
     rpcs |-> <<>>]

\* no handler call is followed: none was made, or the last one has answered
HandlerIdle == apply.pc \in {"idle", "done", "get_done", "list_done", "job_done"}

\* apply() up to its first batch request, or to its answer.  The request
\* is (rack_id, firmware_id, firmware_type); each part is drawn where the
\* handler first reads it.
ApplyStart ==
    /\ HandlerIdle
    /\ \E rack_id \in {None, Some("rack1")} :
          IF rack_id = None THEN apply' = ApplyError(None, None, "invalid_argument")
          ELSE \E firmware_id \in FirmwareIds :
             LET fw_config == DbFindById(firmware_id)
             IN  IF fw_config = None
                 THEN apply' = ApplyError(Some(firmware_id), None, "internal")
                 ELSE IF NotAvailable(Unwrap(fw_config))
                 THEN apply' = ApplyError(Some(firmware_id), None, "failed_precondition")
                 ELSE \E rack \in RackLookups :
                    IF rack = None
                    THEN apply' = ApplyError(Some(firmware_id), None, "internal")
                    ELSE IF EmptyRack(Unwrap(rack))
                         THEN apply' = ApplyError(Some(firmware_id), rack,
                                                  "failed_precondition")
                    ELSE \E firmware_type \in FirmwareTypes :
                            apply' \in ApplyAdvance(
                                ApplyInit(Unwrap(rack_id), firmware_id, firmware_type,
                                          Unwrap(fw_config), Unwrap(rack)),
                                1, rms_client)
    /\ UNCHANGED <<db, vault, fs, calls, rms_client>>

\* what update_firmware_by_node_type_async can give
RmsAnswers ==
    {[ok |-> TRUE, status |-> status, job_id |-> "job1", total_nodes |-> 1,
      message |-> "accepted",
      node_jobs |-> <<[node_id |-> "node1", job_id |-> "job1-node1"]>>]
        : status \in {"Success", "Failure"}}
    \cup {[ok |-> FALSE, error |-> "unavailable"]}

\* A bookkeeping that counts every answered request as a success.
ApplyRecordAnyOk(st, answer) ==
    LET display_name == device_types[st.idx].display_name
    IN  IF answer.ok
        THEN [st EXCEPT
                 !.rpcs[Len(st.rpcs)].answer = Some(answer),
                 !.successful_updates = @ + 1,
                 !.device_results = Append(@,
                     [device_id |-> st.rack_id,
                      device_type |-> display_name,
                      success |-> TRUE,
                      message |-> <<"Async firmware update initiated for ",
                                    answer.total_nodes, " nodes: ",
                                    answer.message>>,
                      job_id |-> answer.job_id,
                      node_jobs |-> answer.node_jobs])]
        ELSE RecordFailure([st EXCEPT !.rpcs[Len(st.rpcs)].answer = Some(answer)],
                           display_name, <<"RMS API Error: ", answer.error>>)

\* the bookkeeping of one batch answer; the answer is kept with its request
ApplyRecord(st, answer) ==
    LET display_name == device_types[st.idx].display_name
    IN  IF answer.ok
        THEN LET success == answer.status = "Success"
             IN  [st EXCEPT
                     !.rpcs[Len(st.rpcs)].answer = Some(answer),
                     !.successful_updates = IF success THEN @ + 1 ELSE @,
                     !.failed_updates = IF success THEN @ ELSE @ + 1,
                     !.device_results = Append(@,
                         [device_id |-> st.rack_id,
                          device_type |-> display_name,
                          success |-> success,
                          message |-> <<"Async firmware update initiated for ",
                                        answer.total_nodes, " nodes: ",
                                        answer.message>>,
                          job_id |-> answer.job_id,
                          node_jobs |-> answer.node_jobs])]
        ELSE RecordFailure([st EXCEPT !.rpcs[Len(st.rpcs)].answer = Some(answer)],
                           display_name, <<"RMS API Error: ", answer.error>>)

\* An apply() that answers an error status when a batch request fails.
ApplyRmsResponseAborting ==
    /\ apply.pc = "rpc"
    /\ \E answer \in RmsAnswers :
          IF answer.ok
          THEN apply' \in ApplyAdvance(ApplyRecord(apply, answer), apply.idx + 1,
                                       rms_client)
          ELSE apply' = ApplyDone(apply.firmware_id, Some(apply.rack),
                                  Some(apply.firmware_type),
                                  Some(apply.parsed_components),
                                  [code |-> "internal"],
                                  ApplyRecord(apply, answer).rpcs)
    /\ UNCHANGED <<db, vault, fs, calls, rms_client>>

\* An apply() that leaves its loop after a batch request that did not succeed.
ApplyRmsResponseStopping ==
    /\ apply.pc = "rpc"
    /\ \E answer \in RmsAnswers :
          apply' \in ApplyAdvance(ApplyRecord(apply, answer),
                                  IF answer.ok /\ answer.status = "Success"
                                  THEN apply.idx + 1 ELSE Len(device_types) + 1,
                                  rms_client)
    /\ UNCHANGED <<db, vault, fs, calls, rms_client>>

\* the answer to the batch request in flight, then on to the next bucket
ApplyRmsResponse ==
    /\ apply.pc = "rpc"
    /\ \E answer \in RmsAnswers :
          apply' \in ApplyAdvance(ApplyRecord(apply, answer), apply.idx + 1, rms_client)
    /\ UNCHANGED <<db, vault, fs, calls, rms_client>>

MaxUnits == 2

RunNext ==
    \/ \E n \in 1..MaxCalls : n <= Len(calls) /\ RunGetCredentials(n)
    \/ \E n \in 1..MaxCalls : n <= Len(calls) /\ RunSpawnUnits(n)
    \/ \E n \in 1..MaxCalls, u \in 1..MaxUnits :
          n <= Len(calls) /\ u <= Len(RunOf(n).units) /\ UnitBegin(n, u)
    \/ \E n \in 1..MaxCalls, u \in 1..MaxUnits :
          n <= Len(calls) /\ u <= Len(RunOf(n).units) /\ UnitFirstResponse(n, u)
    \/ \E n \in 1..MaxCalls, u \in 1..MaxUnits :
          n <= Len(calls) /\ u <= Len(RunOf(n).units) /\ UnitSecondResponse(n, u)
    \/ \E n \in 1..MaxCalls, u \in 1..MaxUnits :
          n <= Len(calls) /\ u <= Len(RunOf(n).units) /\ UnitPanic(n, u)
    \/ \E n \in 1..MaxCalls, u \in 1..MaxUnits :
          n <= Len(calls) /\ u <= Len(RunOf(n).units) /\ RunJoinNext(n, u)
    \/ \E n \in 1..MaxCalls : n <= Len(calls) /\ RunFinish(n)

Next == Create \/ Delete \/ RunNext \/ ApplyStart \/ ApplyRmsResponse

Spec == Init /\ [][Next]_vars

\* The runtime schedules every spawned task: a run that can take a step
\* eventually takes one.
RunStep(n) ==
    /\ n <= Len(calls)
    /\ \/ RunGetCredentials(n)
       \/ RunSpawnUnits(n)
       \/ RunFinish(n)
       \/ \E u \in 1..MaxUnits :
             /\ u <= Len(RunOf(n).units)
             /\ \/ UnitBegin(n, u)
                \/ UnitFirstResponse(n, u)
                \/ UnitSecondResponse(n, u)
                \/ RunJoinNext(n, u)

FairSpec == Spec /\ \A n \in 1..MaxCalls : WF_vars(RunStep(n))

\* the manifests of the configs apply() is followed on
ApplyManifests(id) == {ManifestTwo(id), ManifestRack(id), ManifestRackDev(id)}

\* the run of a manifest that has fetched every file and ended
FinishedRun(parsed_struct) ==
    LET locations == AllLocations(parsed_struct)
    IN  [SpawnedRun(parsed_struct) EXCEPT
            !.pc = "done",
            !.token = "token",
            !.units = [i \in 1..Len(locations) |->
                          JoinedUnit([NewUnit(locations[i]) EXCEPT !.pc = "ok"])],
            !.successful_downloads = Len(locations),
            !.requests = Len(locations),
            !.result = "Ok"]

\* The state after create() of one manifest and a download run without a
\* failure: the record is available and holds the lookup table.
InitAvailable ==
    \E id \in FirmwareIds : \E manifest \in ApplyManifests(id) :
       LET parsed == parse_rack_firmware_json(manifest)
           created == DbCreate(id, manifest, parsed)
           locations == AllLocations(Unwrap(parsed))
       IN  /\ db = DbMarkAvailable([i \in FirmwareIds |->
                                       IF i = id THEN Some(created) ELSE None],
                                   id, build_firmware_lookup_table(Unwrap(parsed)))
           /\ vault = [i \in FirmwareIds |-> IF i = id THEN Some("token") ELSE None]
           /\ fs = [i \in FirmwareIds |->
                       IF i = id
                       THEN [dir |-> TRUE,
                             files |-> {Unwrap(Filename(locations[k].location)) :
                                           k \in 1..Len(locations)}]
                       ELSE [dir |-> FALSE, files |-> {}]]
           /\ calls = <<CallEntry(Some(id), [code |-> "ok", config |-> created],
                                  FinishedRun(Unwrap(parsed)))>>
           /\ rms_client \in BOOLEAN
           /\ apply = [pc |-> "idle"]

\* apply() calls, one after another, on a config its run has made available
NextApply == ApplyStart \/ ApplyRmsResponse

ApplySpec == InitAvailable /\ [][NextApply]_vars

\* The ordering step of apply() on its own.  The vector that
\* find_firmware_components_for_device returned for a bucket is drawn from
\* the vectors of up to MaxComponents (name, filename, target) entries.
MaxComponents == 3

ComponentNames == <<"first", "second", "third", "fourth">>

ComponentTargets ==
    {"bmc", "fpga", "erot", "bios", "/redfish/v1/Chassis/HGX_Chassis_0", "FW_BMC_0",
     "nvos"}

FoundComponents ==
    UNION {{[i \in 1..n |-> <<ComponentNames[i], <<ComponentNames[i], ".fwpkg">>, t[i]>>] :
               t \in [1..n -> ComponentTargets]} : n \in 0..MaxComponents}

LookupKeys == {device_types[i].lookup_key : i \in 1..Len(device_types)}

InitFound ==
    /\ db = [id \in FirmwareIds |-> None]
    /\ vault = [id \in FirmwareIds |-> None]
    /\ fs = [id \in FirmwareIds |-> [dir |-> FALSE, files |-> {}]]
    /\ calls = <<>>
    /\ rms_client = TRUE
    /\ \E lookup_key \in LookupKeys : \E firmware_components \in FoundComponents :
          \E firmware_id \in FirmwareIds :
             apply = [pc |-> "found", firmware_id |-> firmware_id,
                      lookup_key |-> lookup_key,
                      firmware_components |-> firmware_components]

\* the sort of firmware_components and the map to firmware_targets
ApplySortComponents ==
    /\ apply.pc = "found"
    /\ LET flash_order == get_firmware_flash_order(apply.lookup_key)
           sorted == SortByFlashOrder(apply.firmware_components, flash_order)
       IN  apply' = [pc |-> "targets", firmware_id |-> apply.firmware_id,
                     lookup_key |-> apply.lookup_key,
                     found |-> apply.firmware_components,
                     firmware_components |-> sorted,
                     firmware_targets |-> FirmwareTargets(apply.firmware_id, sorted)]
    /\ UNCHANGED <<db, vault, fs, calls, rms_client>>

SortSpec == InitFound /\ [][ApplySortComponents]_vars

\* The parse step of create() on its own.  The manifest is drawn from JSON
\* objects in which each key the parser reads may be missing; a key that
\* holds a value of another JSON type than the one read (as_str, as_array)
\* reads as a missing key does, and is drawn as missing.
Without(obj, keys) == [k \in DOMAIN obj \ keys |-> obj[k]]

MaxLocations == 2

LocationObjects ==
    {JsonLocation(UrlA, "Firmware"), JsonLocation(UrlB, "Firmware"),
     JsonLocation(UrlCert, "Certificate"), JsonLocation(UrlCert, "Misc"),
     Without(JsonLocation(UrlA, "Firmware"), {"Type"}),
     Without(JsonLocation(UrlA, "Firmware"), {"Location", "LocationType"})}

LocationLists == UNION {[1..n -> LocationObjects] : n \in 0..MaxLocations}

JsonSubComponent == [Component |-> "CPLD", Version |-> "2.0", SKUID |-> "sub-sku"]

JsonFirmwareFull(locations) ==
    [Component |-> "HMC", Bundle |-> "P4975", Version |-> "1.0", Type |-> <<"Prod">>,
     Locations |-> locations,
     SubComponents |-> <<JsonSubComponent, Without(JsonSubComponent, {"Version"})>>]

FirmwareDrops ==
    {{}, {"Component"}, {"Type"}, {"Locations"}, {"SubComponents"},
     {"Bundle", "Version"}}

FirmwareObjects ==
    {Without(JsonFirmwareFull(locations), drop) :
        locations \in LocationLists, drop \in FirmwareDrops}

\* firmware arrays of one entry, and of two entries that differ
FirmwareLists ==
    {<<>>}
    \cup {<<firmware>> : firmware \in FirmwareObjects}
    \cup {<<JsonFirmwareFull(<<JsonLocation(UrlCert, "Certificate")>>),
            JsonFirmwareFull(<<JsonLocation(UrlA, "Firmware")>>)>>}

JsonBoardFull(name, components) ==
    [SKUID |-> ComputeSku, Name |-> name, Type |-> "Board", Components |-> components]

BoardObjects ==
    {Without(JsonBoardFull("board", [Firmware |-> firmware]), drop) :
        firmware \in FirmwareLists, drop \in SUBSET {"SKUID", "Name", "Type"}}
    \cup {Without(JsonBoardFull("board", [Software |-> <<>>]), drop) :
             drop \in SUBSET {"SKUID", "Name", "Type", "Components"}}

\* the configs create() hands to the parser: with no BoardSKUs, with an array
\* of no board, of one board, and of two boards that differ
ParserConfigs ==
    {[Id |-> id] : id \in FirmwareIds}
    \cup {[Id |-> id, BoardSKUs |-> <<>>] : id \in FirmwareIds}
    \cup {[Id |-> id, BoardSKUs |-> <<board>>] : id \in FirmwareIds, board \in BoardObjects}
    \cup {[Id |-> id,
           BoardSKUs |-> <<JsonBoardFull("first", [Firmware |-> <<>>]),
                           Without(JsonBoardFull("second", [Software |-> <<>>]),
                                   {"SKUID"})>>] : id \in FirmwareIds}

InitConfig ==
    /\ db = [id \in FirmwareIds |-> None]
    /\ vault = [id \in FirmwareIds |-> None]
    /\ fs = [id \in FirmwareIds |-> [dir |-> FALSE, files |-> {}]]
    /\ \E config \in ParserConfigs : calls = <<[pc |-> "config", config |-> config]>>
    /\ rms_client = TRUE
    /\ apply = [pc |-> "idle"]

\* parse_rack_firmware_json(&config) in create()
CreateParse ==
    /\ Len(calls) = 1
    /\ calls[1].pc = "config"
    /\ calls' = <<[pc |-> "parsed", config |-> calls[1].config,
                   parsed_components |-> parse_rack_firmware_json(calls[1].config)]>>
    /\ UNCHANGED <<db, vault, fs, rms_client, apply>>

ParseSpec == InitConfig /\ [][CreateParse]_vars

\* The classifier on its own.  The SKU string of a board is drawn from the
\* strings of up to MaxSkuAtoms pieces, each a listed SKU id, an unlisted
\* one, a comma or a blank.
MaxSkuAtoms == 4

SkuIds ==
    UNION {[1..n -> {"699-24764-0001-TS3", "920-9K36F-00MV-QS1", "999-FOO", ",", " "}] :
              n \in 0..MaxSkuAtoms}

InitSku ==
    /\ db = [id \in FirmwareIds |-> None]
    /\ vault = [id \in FirmwareIds |-> None]
    /\ fs = [id \in FirmwareIds |-> [dir |-> FALSE, files |-> {}]]
    /\ \E sku_id \in SkuIds : calls = <<[pc |-> "board", sku_id |-> sku_id]>>
    /\ rms_client = TRUE
    /\ apply = [pc |-> "idle"]

\* get_device_type_from_skuid(&board_sku.sku_id) in the table builder
BuildClassify ==
    /\ Len(calls) = 1
    /\ calls[1].pc = "board"
    /\ calls' = <<[pc |-> "classified", sku_id |-> calls[1].sku_id,
                   device_type |-> get_device_type_from_skuid(calls[1].sku_id)]>>
    /\ UNCHANGED <<db, vault, fs, rms_client, apply>>

ClassifySpec == InitSku /\ [][BuildClassify]_vars

\* The table builder on its own.  The parsed manifest is the parse of a
\* drawn manifest: one board of any SKU with up to MaxFirmware components,
\* or two boards of fewer components.
MaxFirmware == 2

BuilderSkus == {ComputeSku, SwitchSku, <<"999-FOO">>, <<>>}

BuilderComponents ==
    {"HMC", "BMC", "Power Shelf FW", "BMC+FPGA+EROT", "SBIOS+EROT", "CPLD"}

BuilderFirmware ==
    LET locations == {<<>>, <<JsonLocation(UrlA, "Firmware")>>}
    IN  {JsonFirmware(component, <<variant>>, l) :
            component \in BuilderComponents, variant \in {"Prod", "Dev"}, l \in locations}
        \cup {JsonFirmwareBare(component, l) :
                 component \in BuilderComponents, l \in locations}

BuilderBoards(skus) ==
    {JsonBoard(skuid, firmware) :
        skuid \in skus,
        firmware \in UNION {[1..n -> BuilderFirmware] : n \in 0..MaxFirmware}}

\* boards of at most one component with a location, for manifests of two boards
BuilderSmallBoards ==
    {JsonBoard(skuid, firmware) :
        skuid \in BuilderSkus \ {<<>>},
        firmware \in {<<>>}
           \cup {<<JsonFirmware(component, <<"Prod">>, <<JsonLocation(UrlB, "Firmware")>>)>> :
                    component \in {"HMC", "BMC", "Power Shelf FW", "SBIOS+EROT"}}}

BuilderInputs(id) ==
    {Unwrap(parse_rack_firmware_json([Id |-> id, BoardSKUs |-> boards])) :
        boards \in {<<>>} \cup {<<board>> : board \in BuilderBoards(BuilderSkus)}
                   \cup (BuilderSmallBoards \X BuilderSmallBoards)}

InitParsed ==
    /\ db = [id \in FirmwareIds |-> None]
    /\ vault = [id \in FirmwareIds |-> None]
    /\ fs = [id \in FirmwareIds |-> [dir |-> FALSE, files |-> {}]]
    /\ \E id \in FirmwareIds : \E parsed_components \in BuilderInputs(id) :
          calls = <<[pc |-> "parsed", parsed_components |-> parsed_components,
                     tables |-> <<>>]>>
    /\ rms_client \in BOOLEAN
    /\ apply = [pc |-> "idle"]

\* A build that leaves the Power Shelf bucket out when a table was built
\* before.
RunBuildOnce ==
    /\ Len(calls) = 1
    /\ calls[1].pc = "parsed"
    /\ Len(calls[1].tables) < 2
    /\ LET devices == build_firmware_lookup_table(calls[1].parsed_components).devices
       IN  calls' = <<[calls[1] EXCEPT
                         !.tables = Append(@,
                             IF calls[1].tables = <<>> THEN [devices |-> devices]
                             ELSE [devices |-> [k \in DOMAIN devices \ {"Power Shelf"} |->
                                                  devices[k]]])]>>
    /\ UNCHANGED <<db, vault, fs, rms_client, apply>>

\* build_firmware_lookup_table(parsed_components) in a download run; the
\* run of a manifest submitted again builds the table again
RunBuild ==
    /\ Len(calls) = 1
    /\ calls[1].pc = "parsed"
    /\ Len(calls[1].tables) < 2
    /\ calls' = <<[calls[1] EXCEPT
                      !.tables = Append(@,
                          build_firmware_lookup_table(calls[1].parsed_components))]>>
    /\ UNCHANGED <<db, vault, fs, rms_client, apply>>

BuildSpec == InitParsed /\ [][RunBuild]_vars

\* The same system when a deleted manifest may be submitted again; apply()
\* is left out.
NextReuse == Create \/ Resubmit \/ Delete \/ RunNext

ReuseSpec == Init /\ [][NextReuse]_vars

(***************************************************************************)
(* get_job_status                                                          *)
(***************************************************************************)

\* the job ids a caller sends and the fleet manager answers with
JobIds == {"", "job1", "job2"}

\* job_state is a 32-bit integer on the wire
JobStates == {-2147483647 - 1, -1, 0, 1, 2, 3, 4, 2147483647}

\* the text fields of a job status
JobTexts ==
    {[state_description |-> "", rack_id |-> "", node_id |-> "",
      error_message |-> "", result_json |-> ""],
     [state_description |-> "flashing", rack_id |-> "rack1", node_id |-> "",
      error_message |-> "", result_json |-> ""],
     [state_description |-> "failed", rack_id |-> "rack1", node_id |-> "node1",
      error_message |-> "timeout", result_json |-> "{}"]}

\* what get_firmware_job_status can give: an error, or a response whose
\* fields the fleet manager chooses
JobAnswers ==
    {[ok |-> FALSE, error |-> "unavailable"]}
    \cup {[ok |-> TRUE, job_id |-> job_id, job_state |-> job_state,
           state_description |-> text.state_description, rack_id |-> text.rack_id,
           node_id |-> text.node_id, error_message |-> text.error_message,
           result_json |-> text.result_json] :
              job_id \in {"job1", "job2"}, job_state \in JobStates, text \in JobTexts}

\* A handler that takes every job id.
JobIdEmptyNever(job_id) == FALSE

\* req.job_id.is_empty()
JobIdEmpty(job_id) == job_id = ""

\* A mapping that clamps the code into the four named states.
JobStateNameClamped(job_state) ==
    IF job_state <= 0 THEN "QUEUED"
    ELSE IF job_state = 1 THEN "RUNNING"
    ELSE IF job_state = 2 THEN "COMPLETED"
    ELSE "FAILED"

\* match rms_response.job_state
JobStateName(job_state) ==
    CASE job_state = 0 -> "QUEUED"
      [] job_state = 1 -> "RUNNING"
      [] job_state = 2 -> "COMPLETED"
      [] job_state = 3 -> "FAILED"
      [] OTHER -> "UNKNOWN"

\* the end of a get_job_status call: its request, what it sent to the fleet
\* manager, what came back, its answer
JobDone(job_id, rms_requests, rms_response, resp) ==
    [pc |-> "job_done", job_id |-> job_id, rms_requests |-> rms_requests,
     rms_response |-> rms_response, resp |-> resp]

\* Ok(Response::new(RackFirmwareJobStatusResponse { .. }))
JobResponse(job_id, rms_response) ==
    [code |-> "ok",
     job_id |-> rms_response.job_id,
     state |-> JobStateName(rms_response.job_state),
     state_description |-> rms_response.state_description,
     rack_id |-> rms_response.rack_id,
     node_id |-> rms_response.node_id,
     error_message |-> rms_response.error_message,
     result_json |-> rms_response.result_json]

\* get_job_status() up to its request to the fleet manager, or to its error
GetJobStatus ==
    /\ HandlerIdle
    /\ \E job_id \in JobIds :
          IF JobIdEmpty(job_id)
          THEN apply' = JobDone(job_id, <<>>, None, [code |-> "invalid_argument"])
          ELSE IF ~rms_client
          THEN apply' = JobDone(job_id, <<>>, None, [code |-> "failed_precondition"])
          ELSE apply' = [pc |-> "job_rpc", job_id |-> job_id,
                         rms_requests |-> <<[metadata |-> None, job_id |-> job_id]>>]
    /\ UNCHANGED <<db, vault, fs, calls, rms_client>>

\* the fleet manager's answer and the rest of get_job_status()
GetJobStatusRmsResponse ==
    /\ apply.pc = "job_rpc"
    /\ \E answer \in JobAnswers :
          apply' = JobDone(apply.job_id, apply.rms_requests, Some(answer),
                           IF answer.ok THEN JobResponse(apply.job_id, answer)
                           ELSE [code |-> "internal"])
    /\ UNCHANGED <<db, vault, fs, calls, rms_client>>

\* get_job_status() calls, one after another
NextJob == GetJobStatus \/ GetJobStatusRmsResponse

JobSpec == Init /\ [][NextJob]_vars

(***************************************************************************)
(* get, list                                                               *)
(***************************************************************************)

\* A get() that takes the record it hands out off the available ones.
getInvalidating ==
    /\ HandlerIdle
    /\ \E id \in FirmwareIds :
          LET db_config == DbFindById(id)
          IN  /\ apply' = [pc |-> "get_done", id |-> id,
                           resp |-> IF db_config = None THEN [code |-> "error"]
                                    ELSE [code |-> "ok", config |-> Unwrap(db_config)]]
              /\ db' = IF db_config = None THEN db
                       ELSE [db EXCEPT ![id] =
                                Some([Unwrap(db_config) EXCEPT !.available = FALSE])]
    /\ UNCHANGED <<vault, fs, calls, rms_client>>

\* get(): the record of the id, or the error of find_by_id
get ==
    /\ HandlerIdle
    /\ \E id \in FirmwareIds :
          LET db_config == DbFindById(id)
          IN  apply' = [pc |-> "get_done", id |-> id,
                        resp |-> IF db_config = None THEN [code |-> "error"]
                                 ELSE [code |-> "ok", config |-> Unwrap(db_config)]]
    /\ UNCHANGED <<db, vault, fs, calls, rms_client>>

\* DbRackFirmware::list_all: every row, or the available ones
DbListAll(only_available) ==
    {Unwrap(db[id]) : id \in {i \in FirmwareIds :
                                  /\ db[i] # None
                                  /\ only_available => Unwrap(db[i]).available}}

\* list(): the rows read in a transaction of its own
list ==
    /\ HandlerIdle
    /\ \E only_available \in BOOLEAN, txn_ok \in BOOLEAN :
          apply' = [pc |-> "list_done", only_available |-> only_available,
                    resp |-> IF txn_ok
                             THEN [code |-> "ok", configs |-> DbListAll(only_available)]
                             ELSE [code |-> "error"]]
    /\ UNCHANGED <<db, vault, fs, calls, rms_client>>

\* The state in which create() of one manifest has answered: the record is
\* stored, not available, the credential is stored and the run is spawned.
InitCreated ==
    \E id \in FirmwareIds : \E manifest \in {ManifestTwo(id)} :
       LET parsed == parse_rack_firmware_json(manifest)
           created == DbCreate(id, manifest, parsed)
       IN  /\ db = [i \in FirmwareIds |-> IF i = id THEN Some(created) ELSE None]
           /\ vault = [i \in FirmwareIds |-> IF i = id THEN Some("token") ELSE None]
           /\ fs = [i \in FirmwareIds |-> [dir |-> FALSE, files |-> {}]]
           /\ calls = <<CallEntry(Some(id), [code |-> "ok", config |-> created],
                                  SpawnedRun(Unwrap(parsed)))>>
           /\ rms_client \in BOOLEAN
           /\ apply = [pc |-> "idle"]

\* every operation of the module on a config that was created: the
\* background run and the handlers
NextModule ==
    \/ Delete
    \/ RunNext
    \/ ApplyStart
    \/ ApplyRmsResponse
    \/ get
    \/ list
    \/ GetJobStatus
    \/ GetJobStatusRmsResponse

ModuleSpec == InitCreated /\ [][NextModule]_vars

(***************************************************************************)
(* Properties                                                              *)
(***************************************************************************)

\* the create() calls that stored a record and answered it
OkCalls == {n \in Calls : calls[n].resp.code = "ok"}

\* the run went through its join loop: it ended, and not on the credential
\* read or the directory creation
Tallied(run) ==
    /\ run.pc = "done"
    /\ run.result \notin {"Failed to get token from Vault",
                          "Failed to create cache directory"}

\* the run ended after its update statement committed
Flipped(run) == run.pc = "done" /\ run.result = "Ok" /\ run.failed_downloads = 0

\* C1 as stated: for a created config whose record exists, once its run has
\* gone through the tally, available is true if and only if the run tallied
\* zero failed files.
C1_AvailableIffZeroFailures ==
    \A n \in OkCalls :
       (Tallied(RunOf(n)) /\ db[RunId(n)] # None)
          => (Unwrap(db[RunId(n)]).available <=> RunOf(n).failed_downloads = 0)

\* C1 amended: for a created config whose record exists, available is true
\* if and only if its run has ended with zero failed files and with its
\* update transaction committed; before the run ends, and after a run that
\* tallied a failure or ended in an error, available is false.
C1_AvailableIffZeroFailuresAndCommit ==
    \A n \in OkCalls :
       db[RunId(n)] # None
          => (Unwrap(db[RunId(n)]).available <=> Flipped(RunOf(n)))

\* a run with two files has ended without a failure and its config is
\* available
C1_Witness ==
    \E n \in OkCalls :
       /\ Flipped(RunOf(n))
       /\ RunOf(n).successful_downloads = 2
       /\ db[RunId(n)] # None
       /\ Unwrap(db[RunId(n)]).available

\* C2: in every state a stored config is available exactly when its
\* parsed_components is the lookup table built from the parse of its
\* manifest; until then it holds the parse itself.  No state shows the flag
\* without the table or the table without the flag.
C2_AvailableIffLookupTable ==
    \A id \in FirmwareIds :
       db[id] # None
          => LET record == Unwrap(db[id])
                 parsed == parse_rack_firmware_json(record.config)
             IN  IF record.available
                 THEN /\ parsed # None
                      /\ record.parsed_components # None
                      /\ DOMAIN Unwrap(record.parsed_components) = {"devices"}
                      /\ Unwrap(record.parsed_components)
                            = build_firmware_lookup_table(Unwrap(parsed))
                 ELSE \/ record.parsed_components = None /\ parsed = None
                      \/ /\ record.parsed_components # None
                         /\ parsed # None
                         /\ DOMAIN Unwrap(record.parsed_components) = {"board_skus"}
                         /\ Unwrap(record.parsed_components) = Unwrap(parsed)

\* an available config whose lookup table has a device
C2_Witness ==
    \E id \in FirmwareIds :
       /\ db[id] # None
       /\ Unwrap(db[id]).available
       /\ Unwrap(db[id]).parsed_components # None
       /\ "devices" \in DOMAIN Unwrap(Unwrap(db[id]).parsed_components)
       /\ Unwrap(Unwrap(db[id]).parsed_components).devices # EmptyMap

\* the entries of "Locations" with Type "Firmware", counted on the manifest
\* as submitted
RECURSIVE CountFirmwareLocations(_)
CountFirmwareLocations(arr) ==
    IF arr = <<>> THEN 0
    ELSE (IF "Type" \in DOMAIN Head(arr) /\ Head(arr).Type = "Firmware" THEN 1 ELSE 0)
         + CountFirmwareLocations(Tail(arr))

RECURSIVE CountInFirmwares(_)
CountInFirmwares(arr) ==
    IF arr = <<>> THEN 0
    ELSE (IF "Locations" \in DOMAIN Head(arr)
          THEN CountFirmwareLocations(Head(arr).Locations) ELSE 0)
         + CountInFirmwares(Tail(arr))

RECURSIVE CountInBoards(_)
CountInBoards(arr) ==
    IF arr = <<>> THEN 0
    ELSE (IF "Components" \in DOMAIN Head(arr) /\ "Firmware" \in DOMAIN Head(arr).Components
          THEN CountInFirmwares(Head(arr).Components.Firmware) ELSE 0)
         + CountInBoards(Tail(arr))

JoinedWith(run, outcomes) ==
    Cardinality({u \in 1..Len(run.units) :
                    run.units[u].pc = "joined" /\ run.units[u].outcome \in outcomes})

\* C3: a run in or past its join loop has one unit per retained location of
\* the manifest; each joined unit is counted once, as a success when it
\* returned Ok and as a failure when it returned an error or panicked; a
\* unit that has not finished can take its step whatever its siblings did;
\* the run ends only when all are joined, with successes + failures equal
\* to the number of units.
C3_EveryUnitTalliedOnce ==
    \A n \in OkCalls :
       LET run == RunOf(n)
       IN  (run.pc = "join" \/ Tallied(run))
              => /\ Len(run.units) = CountInBoards(calls[n].resp.config.config.BoardSKUs)
                 /\ run.successful_downloads = JoinedWith(run, {"ok"})
                 /\ run.failed_downloads = JoinedWith(run, {"err", "panic"})
                 /\ run.pc = "done"
                       => /\ AllJoined(run)
                          /\ run.successful_downloads + run.failed_downloads
                                = Len(run.units)
                 /\ run.pc = "join"
                       => \A u \in 1..Len(run.units) :
                             run.units[u].pc \in {"spawned", "get1", "get2"}
                                => ENABLED (\/ UnitBegin(n, u)
                                            \/ UnitFirstResponse(n, u)
                                            \/ UnitSecondResponse(n, u))

\* a run of two units has ended: one panicked and was counted as the
\* failure, the other succeeded
C3_Witness ==
    \E n \in OkCalls :
       /\ RunOf(n).pc = "done"
       /\ Len(RunOf(n).units) = 2
       /\ JoinedWith(RunOf(n), {"panic"}) = 1
       /\ RunOf(n).successful_downloads = 1
       /\ RunOf(n).failed_downloads = 1

\* how far a run has come
Rank(pc) ==
    CASE pc = "none" -> 0
      [] pc = "spawned" -> 1
      [] pc = "mkdir" -> 2
      [] pc = "join" -> 3
      [] pc = "done" -> 4
      [] OTHER -> 0 - 1

\* no step takes a run back, stops it or removes it
RunNeverCancelled ==
    \A n \in 1..MaxCalls :
       n <= Len(calls)
          => /\ n <= Len(calls')
             /\ Rank(calls'[n].run.pc) >= Rank(calls[n].run.pc)

\* C4: every run that create() spawned ends, whatever create(), delete()
\* and apply() calls come in between, and no step of any request cancels it
\* or takes it back; it ends either having marked its config available or
\* with the config, if it still exists, unavailable.
C4_EveryRunTerminates ==
    /\ \A n \in 1..MaxCalls :
          (n <= Len(calls) /\ calls[n].run.pc = "spawned")
             ~> /\ n <= Len(calls)
                /\ calls[n].run.pc = "done"
                /\ db[RunId(n)] # None
                      => (Unwrap(db[RunId(n)]).available <=> Flipped(RunOf(n)))
    /\ [][RunNeverCancelled]_vars

\* a run has ended although its config was deleted meanwhile
C4_Witness ==
    \E n \in OkCalls :
       /\ RunOf(n).pc = "done"
       /\ Len(RunOf(n).units) = 2
       /\ db[RunId(n)] = None

\* a transport error or a 401 answer
NeedsRetry(r) == ~r.ok \/ r.status = UNAUTHORIZED

Last(seq) == seq[Len(seq)]

\* C5: a unit sends at most two GETs.  The first carries no token header.
\* A second one has been sent exactly when the first was answered by 401 or
\* failed in transport, and it carries the stored token in
\* X-JFrog-Art-Api.  A unit whose last request was answered by anything
\* but a success has failed.
C5_AtMostOneRetry ==
    \A n \in OkCalls :
       \A u \in 1..Len(RunOf(n).units) :
          LET unit == RunOf(n).units[u]
          IN  unit.pc # "joined"
                 => /\ Len(unit.hdrs) <= 2
                    /\ Len(unit.resps) <= Len(unit.hdrs)
                    /\ Len(unit.hdrs) >= 1 => unit.hdrs[1] = None
                    /\ Len(unit.hdrs) = 2
                          <=> (Len(unit.resps) >= 1 /\ NeedsRetry(unit.resps[1]))
                    /\ Len(unit.hdrs) = 2
                          => unit.hdrs[2] = Some(UnwrapOr(vault[RunId(n)], ""))
                    /\ (Len(unit.resps) = Len(unit.hdrs) /\ unit.resps # <<>>)
                          => IF Last(unit.resps).ok /\ IsSuccess(Last(unit.resps).status)
                             THEN unit.pc \in {"ok", "err"}
                             ELSE unit.pc = "err"
                    /\ unit.pc = "ok" /\ unit.hdrs # <<>>
                          => /\ Len(unit.resps) = Len(unit.hdrs)
                             /\ Last(unit.resps).ok
                             /\ IsSuccess(Last(unit.resps).status)

\* a unit was answered 401, asked again with the token and succeeded
C5_Witness ==
    \E n \in OkCalls :
       \E u \in 1..Len(RunOf(n).units) :
          /\ RunOf(n).units[u].pc = "ok"
          /\ Len(RunOf(n).units[u].resps) = 2
          /\ RunOf(n).units[u].resps[1] = HttpOk(UNAUTHORIZED)
          /\ RunOf(n).units[u].hdrs = <<None, Some("token")>>

\* call m's run went through every file of its manifest without a failure
\* and call n submitted the same manifest again afterwards
SecondRunOf(m, n) ==
    /\ m < n
    /\ calls[m].id = calls[n].id
    /\ calls[m].resp.config.config = calls[n].resp.config.config
    /\ Tallied(RunOf(m))
    /\ RunOf(m).failed_downloads = 0

\* the step in which unit u of run n goes through its cache check and finds
\* its destination
FindsDestination(n, u) ==
    /\ n <= Len(calls)
    /\ u <= Len(RunOf(n).units)
    /\ RunOf(n).units[u].pc = "spawned"
    /\ calls'[n].run.units[u].pc \notin {"spawned", "panic"}
    /\ DestExists(RunId(n), Unwrap(Filename(RunOf(n).units[u].url)))

\* C6: a unit whose destination exists when it checks succeeds in that step
\* with no request sent and the cache directory untouched; a second run of
\* a manifest whose first run succeeded for every file sends no request and
\* writes no file.
C6_CachedFileNotFetched ==
    /\ [](\A m \in OkCalls, n \in OkCalls :
             SecondRunOf(m, n)
                => /\ RunOf(n).requests = 0
                   /\ \A u \in 1..Len(RunOf(n).units) :
                         /\ ~RunOf(n).units[u].wrote
                         /\ RunOf(n).units[u].hdrs = <<>>
                         /\ RunOf(n).units[u].pc \in {"spawned", "ok", "panic", "joined"}
                         /\ RunOf(n).units[u].outcome \in {"none", "ok", "panic"})
    /\ [][\A n \in 1..MaxCalls, u \in 1..MaxUnits :
             FindsDestination(n, u)
                => /\ calls'[n].run.units[u].pc = "ok"
                   /\ calls'[n].run.units[u].hdrs = <<>>
                   /\ ~calls'[n].run.units[u].wrote
                   /\ calls'[n].run.requests = calls[n].run.requests
                   /\ fs' = fs]_vars

\* the second run of a two-file manifest has ended with both files taken
\* from the cache
C6_Witness ==
    \E m \in OkCalls, n \in OkCalls :
       /\ SecondRunOf(m, n)
       /\ RunOf(m).requests >= 2
       /\ RunOf(n).pc = "done"
       /\ RunOf(n).successful_downloads = 2
       /\ RunOf(n).requests = 0

\* the URL ends in '/' or is empty: its final path segment is empty
EmptyFinalSegment(url) == Filename(url) = Some(<<>>)

\* C7 as stated: a unit whose URL has an empty final path segment ends as a
\* failure, so the config of a run that has such a unit is never available.
C7_EmptyFilenameFails ==
    \A n \in OkCalls :
       /\ \A u \in 1..Len(RunOf(n).units) :
             EmptyFinalSegment(RunOf(n).units[u].url)
                => /\ RunOf(n).units[u].pc # "ok"
                   /\ RunOf(n).units[u].outcome # "ok"
       /\ (/\ RunOf(n).parsed # None
           /\ \E i \in 1..Len(AllLocations(Unwrap(RunOf(n).parsed))) :
                 EmptyFinalSegment(AllLocations(Unwrap(RunOf(n).parsed))[i].location)
           /\ db[RunId(n)] # None)
             => ~Unwrap(db[RunId(n)]).available

\* the record create() stores and answers for a request
CreatedRecord(config, id) == DbCreate(id, config, parse_rack_firmware_json(config))

\* no step changes what a create() call answered, and the step that answers
\* leaves its run not yet started
ResponseSettled ==
    /\ \A n \in 1..MaxCalls :
          n <= Len(calls)
             => /\ n <= Len(calls')
                /\ calls'[n].resp = calls[n].resp
                /\ calls'[n].id = calls[n].id
    /\ Len(calls') > Len(calls)
          => /\ Len(calls') = Len(calls) + 1
             /\ calls'[Len(calls')].run.pc \in {"none", "spawned"}
             /\ calls'[Len(calls')].run.requests = 0

\* C8: what create() answers is fixed when it answers and is the record as
\* created, with available false; it is answered before the run has taken
\* a step, and no outcome of the run, success, failed file or failed
\* transaction, changes it or turns it into an error.  An error answer
\* comes only from a call that spawned no run.
C8_CreateIndependentOfRun ==
    /\ [](\A n \in Calls :
             /\ calls[n].resp.code \in {"ok", "invalid_argument", "internal"}
             /\ calls[n].resp.code = "ok"
                   => /\ ~calls[n].resp.config.available
                      /\ calls[n].resp.config
                            = CreatedRecord(calls[n].resp.config.config, RunId(n))
             /\ calls[n].resp.code # "ok" => RunOf(n).pc = "none")
    /\ [][ResponseSettled]_vars

\* create() answered Ok and the run it spawned has ended on a failed
\* transaction
C8_Witness ==
    \E n \in OkCalls :
       /\ RunOf(n).pc = "done"
       /\ RunOf(n).result = "Failed to commit transaction"
       /\ db[RunId(n)] # None

\* once a run has ended nothing of it moves, and a record it has written
\* is not written again
RunEndsOnce ==
    \A n \in 1..MaxCalls :
       (n <= Len(calls) /\ calls[n].run.pc = "done")
          => /\ calls'[n] = calls[n]
             /\ (db[RunId(n)] # None /\ db'[RunId(n)] # None)
                   => db'[RunId(n)] = db[RunId(n)]

\* C9: a record is created with available false and is written at most
\* once afterwards, by its own run when that run ends with no failed file
\* and a committed transaction; until then, and after a run that ended
\* otherwise, the record is as created; a run that has ended sends no
\* further request and is not followed by another run of the same call.
C9_RecordWrittenAtMostOnce ==
    /\ [](\A n \in OkCalls :
             /\ ~calls[n].resp.config.available
             /\ calls[n].resp.config.updated = 0
             /\ db[RunId(n)] # None
                   => LET record == Unwrap(db[RunId(n)])
                      IN  /\ record.updated <= 1
                          /\ record.updated = 1 <=> Flipped(RunOf(n))
                          /\ ~Flipped(RunOf(n)) => record = calls[n].resp.config
             /\ RunOf(n).pc = "done" => AllJoined(RunOf(n)))
    /\ [][RunEndsOnce]_vars

\* a run has ended with a failed file and its record is as created
C9_Witness ==
    \E n \in OkCalls :
       /\ RunOf(n).pc = "done"
       /\ RunOf(n).failed_downloads > 0
       /\ db[RunId(n)] # None
       /\ Unwrap(db[RunId(n)]) = calls[n].resp.config

\* the step in which apply() reads the config of a firmware id
ApplyReads ==
    /\ apply.pc \in {"idle", "done"}
    /\ apply' # apply
    /\ apply'.firmware_id # None

\* C10 as stated: apply() on a firmware id whose config does not exist or is
\* not available answers a precondition error and sends no request.
C10_PreconditionError ==
    [][ApplyReads
          => LET id == Unwrap(apply'.firmware_id)
             IN  (db[id] = None \/ ~Unwrap(db[id]).available)
                    => /\ apply'.pc = "done"
                       /\ apply'.resp.code = "failed_precondition"
                       /\ apply'.rpcs = <<>>]_vars

\* C10 amended: apply() that names a rack answers, in one step and with no
\* request sent, an internal error when the config of the firmware id does
\* not exist and a precondition error when the config is not available.
C10_NotFoundInternalUnavailablePrecondition ==
    [][ApplyReads
          => LET id == Unwrap(apply'.firmware_id)
             IN  /\ db[id] = None
                    => /\ apply'.pc = "done"
                       /\ apply'.resp.code = "internal"
                       /\ apply'.rpcs = <<>>
                 /\ (db[id] # None /\ ~Unwrap(db[id]).available)
                    => /\ apply'.pc = "done"
                       /\ apply'.resp.code = "failed_precondition"
                       /\ apply'.rpcs = <<>>]_vars

\* apply() has answered a precondition error for a config that is stored
\* and not available
C10_Witness ==
    /\ apply.pc = "done"
    /\ apply.firmware_id # None
    /\ apply.resp.code = "failed_precondition"
    /\ apply.rpcs = <<>>
    /\ db[Unwrap(apply.firmware_id)] # None
    /\ ~Unwrap(db[Unwrap(apply.firmware_id)]).available

\* apply() has answered after reading the rack
ApplyReadRack == apply.pc = "done" /\ apply.rack # None

\* C11: apply() on a rack that has no compute tray, no power shelf and no
\* switch answers a precondition error, has sent no batch request and
\* carries no DeviceUpdateResult.
C11_EmptyRackPrecondition ==
    (/\ ApplyReadRack
     /\ Unwrap(apply.rack).compute_trays = <<>>
     /\ Unwrap(apply.rack).power_shelves = <<>>
     /\ Unwrap(apply.rack).expected_nvlink_switches = <<>>)
       => /\ apply.resp.code = "failed_precondition"
          /\ apply.rpcs = <<>>
          /\ "device_results" \notin DOMAIN apply.resp

\* apply() on an available config and an empty rack has answered
C11_Witness ==
    /\ ApplyReadRack
    /\ Unwrap(apply.rack).compute_trays = <<>>
    /\ Unwrap(apply.rack).power_shelves = <<>>
    /\ Unwrap(apply.rack).expected_nvlink_switches = <<>>
    /\ apply.resp.code = "failed_precondition"
    /\ db[Unwrap(apply.firmware_id)] # None
    /\ Unwrap(db[Unwrap(apply.firmware_id)]).available

\* the place of a bucket in the order Compute, PowerShelf, Switch, by the
\* node type of its request and by the device_type of its result
NodeRank(node_type) ==
    CASE node_type = "Compute" -> 1
      [] node_type = "Powershelf" -> 2
      [] node_type = "Switch" -> 3

DisplayRank(device_type) ==
    CASE device_type = "Compute Node" -> 1
      [] device_type = "Power Shelf" -> 2
      [] device_type = "Switch" -> 3

\* the buckets of which the rack holds a device
PresentBuckets(rack) ==
    {b \in 1..3 : \/ b = 1 /\ rack.compute_trays # <<>>
                  \/ b = 2 /\ rack.power_shelves # <<>>
                  \/ b = 3 /\ rack.expected_nvlink_switches # <<>>}

\* apply() is past its preconditions: in its loop, or answered after it
ApplyInLoop == apply.pc = "rpc" \/ (apply.pc = "done" /\ apply.resp.code = "ok")

ApplyRack == IF apply.pc = "rpc" THEN apply.rack ELSE Unwrap(apply.rack)

ApplyResults ==
    IF apply.pc = "rpc" THEN apply.device_results ELSE apply.resp.device_results

\* C12: the buckets of one apply() are taken one after another in the order
\* Compute, PowerShelf, Switch: requests and results each follow that order,
\* none is for a bucket the rack lacks, a request is sent only when every
\* earlier request has been answered and its bucket recorded, and while a
\* request is in flight nothing of a later bucket has been recorded.
C12_BucketsInOrder ==
    ApplyInLoop
       => /\ \A i, j \in 1..Len(ApplyResults) :
                i < j => DisplayRank(ApplyResults[i].device_type)
                            < DisplayRank(ApplyResults[j].device_type)
          /\ \A i, j \in 1..Len(apply.rpcs) :
                i < j => NodeRank(apply.rpcs[i].node_type)
                            < NodeRank(apply.rpcs[j].node_type)
          /\ \A i \in 1..Len(ApplyResults) :
                DisplayRank(ApplyResults[i].device_type) \in PresentBuckets(ApplyRack)
          /\ \A k \in 1..Len(apply.rpcs) :
                /\ NodeRank(apply.rpcs[k].node_type) \in PresentBuckets(ApplyRack)
                /\ (k < Len(apply.rpcs) \/ apply.pc = "done")
                      => /\ apply.rpcs[k].answer # None
                         /\ \E i \in 1..Len(ApplyResults) :
                               DisplayRank(ApplyResults[i].device_type)
                                  = NodeRank(apply.rpcs[k].node_type)
          /\ apply.pc = "rpc"
                => /\ apply.rpcs # <<>>
                   /\ apply.rpcs[Len(apply.rpcs)].answer = None
                   /\ \A i \in 1..Len(ApplyResults) :
                         DisplayRank(ApplyResults[i].device_type)
                            < NodeRank(apply.rpcs[Len(apply.rpcs)].node_type)

\* apply() has answered after three requests, one per bucket
C12_Witness ==
    /\ apply.pc = "done"
    /\ apply.resp.code = "ok"
    /\ Len(apply.rpcs) = 3
    /\ Len(apply.resp.device_results) = 3

\* the key under which the lookup table holds a bucket
BucketKey(b) ==
    CASE b = 1 -> "Compute Node"
      [] b = 2 -> "Power Shelf"
      [] b = 3 -> "Switch Tray"

\* the table holds, for the bucket, an entry of the requested variant
Resolved(table, b, firmware_type) ==
    /\ "devices" \in DOMAIN table
    /\ BucketKey(b) \in DOMAIN table.devices
    /\ \E k \in DOMAIN table.devices[BucketKey(b)] :
          ToLowercase(table.devices[BucketKey(b)][k].firmware_type)
             = ToLowercase(firmware_type)

ApplyAnswered == apply.pc = "done" /\ apply.resp.code = "ok"

\* the batch requests apply() sent for a bucket
RpcsFor(b) == {k \in 1..Len(apply.rpcs) : NodeRank(apply.rpcs[k].node_type) = b}

\* the results apply() recorded for a bucket
ResultsFor(b) ==
    {i \in 1..Len(apply.resp.device_results) :
        DisplayRank(apply.resp.device_results[i].device_type) = b}

BucketResolved(b) ==
    Resolved(Unwrap(apply.parsed_components), b, Unwrap(apply.firmware_type))

\* C13: when apply() has answered, a bucket present in the rack got exactly
\* one batch request if the table resolved an entry for it and a client is
\* configured, and none otherwise; a bucket absent from the rack got none;
\* a present bucket with no resolved entry has a failed result with the
\* "No matching firmware" message, counted in failed_updates, and every
\* present bucket after it is recorded too.
C13_OneRpcPerResolvedBucket ==
    ApplyAnswered
       => \A b \in 1..3 :
             /\ Cardinality(RpcsFor(b))
                   = IF b \in PresentBuckets(ApplyRack) /\ BucketResolved(b) /\ rms_client
                     THEN 1 ELSE 0
             /\ (b \in PresentBuckets(ApplyRack) /\ ~BucketResolved(b))
                   => /\ \E i \in ResultsFor(b) :
                            /\ ~apply.resp.device_results[i].success
                            /\ apply.resp.device_results[i].message[1]
                                  = "No matching firmware found in config for "
                      /\ apply.resp.failed_updates >= 1
                      /\ \A c \in PresentBuckets(ApplyRack) :
                            c > b => ResultsFor(c) # {}

\* apply() has answered: the compute bucket resolved nothing and was
\* recorded as failed, the two later buckets each got their request
C13_Witness ==
    /\ ApplyAnswered
    /\ PresentBuckets(ApplyRack) = {1, 2, 3}
    /\ ~BucketResolved(1)
    /\ RpcsFor(1) = {}
    /\ Cardinality(RpcsFor(2)) = 1
    /\ Cardinality(RpcsFor(3)) = 1
    /\ apply.resp.failed_updates = 1

\* the place of a target in the flash order of a bucket, 4 when it has none
FlashRank(lookup_key, target) ==
    CASE lookup_key = "Switch Tray" /\ target = "bmc" -> 0
      [] lookup_key = "Switch Tray" /\ target = "fpga" -> 1
      [] lookup_key = "Switch Tray" /\ target = "erot" -> 2
      [] lookup_key = "Switch Tray" /\ target = "bios" -> 3
      [] lookup_key = "Compute Node" /\ target = "/redfish/v1/Chassis/HGX_Chassis_0" -> 0
      [] lookup_key = "Compute Node" /\ target = "FW_BMC_0" -> 1
      [] OTHER -> 4

\* where the entry stood in the vector before the sort
FoundIndex(entry) == CHOOSE i \in 1..Len(apply.found) : apply.found[i] = entry

\* C14: the firmware targets built for a bucket are the found entries, each
\* once, in non-decreasing flash-order rank of the bucket's device type, a
\* target outside the order after every listed one, entries of equal rank in
\* the order they were found; switch targets {bios, bmc, erot} come out as
\* [bmc, erot, bios].
C14_TargetsInFlashOrder ==
    apply.pc = "targets"
       => LET sorted == apply.firmware_components
              targets == apply.firmware_targets
              n == Len(apply.found)
          IN  /\ Len(sorted) = n
              /\ Len(targets) = n
              /\ {sorted[i] : i \in 1..n} = {apply.found[i] : i \in 1..n}
              /\ \A i \in 1..n : targets[i].target = sorted[i][3]
              /\ \A i, j \in 1..n :
                    i < j =>
                       /\ FlashRank(apply.lookup_key, targets[i].target)
                             <= FlashRank(apply.lookup_key, targets[j].target)
                       /\ FlashRank(apply.lookup_key, targets[i].target)
                             = FlashRank(apply.lookup_key, targets[j].target)
                          => FoundIndex(sorted[i]) < FoundIndex(sorted[j])
              /\ (/\ apply.lookup_key = "Switch Tray"
                  /\ n = 3
                  /\ {apply.found[i][3] : i \in 1..n} = {"bios", "bmc", "erot"})
                    => [i \in 1..n |-> targets[i].target] = <<"bmc", "erot", "bios">>

\* the switch entries found as bios, nvos, bmc were sorted
C14_Witness ==
    /\ apply.pc = "targets"
    /\ apply.lookup_key = "Switch Tray"
    /\ [i \in 1..Len(apply.found) |-> apply.found[i][3]] = <<"bios", "nvos", "bmc">>
    /\ [i \in 1..Len(apply.firmware_targets) |-> apply.firmware_targets[i].target]
          = <<"bmc", "bios", "nvos">>

\* the batch requests apply() has sent so far
ApplyRpcs == IF apply.pc \in {"rpc", "done"} THEN apply.rpcs ELSE <<>>

\* C15: a batch request of apply() asks for activation exactly when it is
\* the compute-tray request; the power-shelf and switch requests never do.
C15_ActivateOnlyCompute ==
    \A k \in 1..Len(ApplyRpcs) :
       /\ ApplyRpcs[k].activate <=> ApplyRpcs[k].node_type = "Compute"
       /\ ApplyRpcs[k].node_type \in {"Powershelf", "Switch"} => ~ApplyRpcs[k].activate

\* apply() has sent a compute, a power-shelf and a switch request
C15_Witness ==
    /\ Len(ApplyRpcs) = 3
    /\ ApplyRpcs[1].node_type = "Compute" /\ ApplyRpcs[1].activate
    /\ ApplyRpcs[2].node_type = "Powershelf" /\ ~ApplyRpcs[2].activate
    /\ ApplyRpcs[3].node_type = "Switch" /\ ~ApplyRpcs[3].activate

\* the request of the bucket was answered with the Success status code
AnsweredSuccess(b) ==
    \E k \in RpcsFor(b) :
       /\ apply.rpcs[k].answer # None
       /\ Unwrap(apply.rpcs[k].answer).ok
       /\ Unwrap(apply.rpcs[k].answer).status = "Success"

\* C16: an ok response of apply() holds one DeviceUpdateResult for each
\* bucket present in the rack and none else, total_updates is their number,
\* successful_updates + failed_updates = total_updates, successful_updates
\* is the number of results with success = true, and a result has success
\* only when the bucket's request was answered with the Success status code.
C16_ResponseCounters ==
    ApplyAnswered
       => LET resp == apply.resp
              results == resp.device_results
          IN  /\ \A b \in 1..3 :
                    Cardinality(ResultsFor(b))
                       = IF b \in PresentBuckets(ApplyRack) THEN 1 ELSE 0
              /\ Len(results) = Cardinality(PresentBuckets(ApplyRack))
              /\ resp.total_updates = Len(results)
              /\ resp.successful_updates + resp.failed_updates = resp.total_updates
              /\ resp.successful_updates
                    = Cardinality({i \in 1..Len(results) : results[i].success})
              /\ \A i \in 1..Len(results) :
                    results[i].success
                       => AnsweredSuccess(DisplayRank(results[i].device_type))

\* an ok response over three buckets: one request answered Success, one
\* answered with another status code, one that failed
C16_Witness ==
    /\ ApplyAnswered
    /\ apply.resp.total_updates = 3
    /\ apply.resp.successful_updates = 1
    /\ apply.resp.failed_updates = 2
    /\ \E k \in 1..Len(apply.rpcs) :
          /\ Unwrap(apply.rpcs[k].answer).ok
          /\ Unwrap(apply.rpcs[k].answer).status = "Failure"
    /\ \E k \in 1..Len(apply.rpcs) : ~Unwrap(apply.rpcs[k].answer).ok

\* apply() has answered and had found the config available and the rack
\* holding a device
ApplyPastPreconditions ==
    /\ apply.pc = "done"
    /\ apply.firmware_id # None
    /\ apply.rack # None
    /\ PresentBuckets(Unwrap(apply.rack)) # {}

\* C17: an apply() whose preconditions held (rack id given, config found and
\* available, rack read and not empty) answers ok, whatever became of its
\* buckets; what failed shows in failed_updates and in the success flag of
\* the bucket's result, one failure counted for each result without success.
C17_AlwaysOkPastPreconditions ==
    ApplyPastPreconditions
       => /\ apply.resp.code = "ok"
          /\ apply.resp.failed_updates
                = Cardinality({i \in 1..Len(apply.resp.device_results) :
                                  ~apply.resp.device_results[i].success})

\* an ok answer of which every bucket failed: one on a request that gave an
\* error, the others with no entry resolved
C17_Witness ==
    /\ ApplyPastPreconditions
    /\ apply.resp.code = "ok"
    /\ apply.resp.total_updates = 3
    /\ apply.resp.failed_updates = 3
    /\ \E i \in 1..3 : apply.resp.device_results[i].message[1] = "RMS API Error: "
    /\ \E i \in 1..3 :
          apply.resp.device_results[i].message[1]
             = "No matching firmware found in config for "

\* the request was answered, with an error or a status code other than Success
AnsweredFailure(k) ==
    /\ apply.rpcs[k].answer # None
    /\ \/ ~Unwrap(apply.rpcs[k].answer).ok
       \/ Unwrap(apply.rpcs[k].answer).status # "Success"

\* C18: when a batch request of apply() gave an error or a status code other
\* than Success, apply() still answers ok, with one result for every bucket
\* of the rack that comes later, and one request, with its targets, for
\* every later bucket that has a resolved entry.
C18_LaterBucketsProcessed ==
    apply.pc = "done"
       => \A k \in 1..Len(apply.rpcs) :
             AnsweredFailure(k)
                => /\ apply.resp.code = "ok"
                   /\ \A c \in PresentBuckets(ApplyRack) :
                         c > NodeRank(apply.rpcs[k].node_type)
                            => /\ Cardinality(ResultsFor(c)) = 1
                               /\ BucketResolved(c)
                                     => /\ Cardinality(RpcsFor(c)) = 1
                                        /\ \A j \in RpcsFor(c) :
                                              apply.rpcs[j].firmware_targets # <<>>

\* the compute request gave an error, the power-shelf request a status code
\* other than Success, and the switch request was still sent and succeeded
C18_Witness ==
    /\ apply.pc = "done"
    /\ Len(apply.rpcs) = 3
    /\ ~Unwrap(apply.rpcs[1].answer).ok
    /\ Unwrap(apply.rpcs[2].answer).ok
    /\ Unwrap(apply.rpcs[2].answer).status = "Failure"
    /\ Unwrap(apply.rpcs[3].answer).ok
    /\ Unwrap(apply.rpcs[3].answer).status = "Success"
    /\ apply.resp.device_results[3].success

\* the words occur in the message, one after another
Contains(message, words) ==
    \E i \in 0..(Len(message) - Len(words)) :
       SubSeq(message, i + 1, i + Len(words)) = words

\* C19: with no fleet-management client configured, an apply() on an
\* available config and a rack that holds a device sends no batch request;
\* each bucket of the rack with a resolved entry gets one result, failed,
\* whose message says "client not configured", and apply() goes on: every
\* bucket of the rack has its result in the ok response.
C19_NoClientNoRpc ==
    ~rms_client
       => /\ ApplyRpcs = <<>>
          /\ ApplyPastPreconditions
                => /\ apply.resp.code = "ok"
                   /\ \A b \in PresentBuckets(ApplyRack) :
                         /\ Cardinality(ResultsFor(b)) = 1
                         /\ BucketResolved(b)
                               => \A i \in ResultsFor(b) :
                                     /\ ~apply.resp.device_results[i].success
                                     /\ Contains(apply.resp.device_results[i].message,
                                                 <<"client", " ", "not", " ", "configured">>)

\* no client: the three buckets of the rack all had a resolved entry and all
\* are recorded as failed
C19_Witness ==
    /\ ~rms_client
    /\ ApplyPastPreconditions
    /\ PresentBuckets(ApplyRack) = {1, 2, 3}
    /\ \A b \in 1..3 : BucketResolved(b)
    /\ apply.resp.failed_updates = 3
    /\ \A i \in 1..3 :
          apply.resp.device_results[i].message
             = <<"RMS", " ", "client", " ", "not", " ", "configured">>

\* the create() calls of the manifest with one compute-tray board exposing
\* HMC(prod) and BMC(prod) whose run fetched every file and recorded it
ComputeManifestRuns ==
    {n \in OkCalls : /\ calls[n].resp.config.config = ManifestTwo(RunId(n))
                     /\ Flipped(RunOf(n))}

\* apply() has answered ok for the config, variant prod, on a rack that
\* holds compute trays only, with a client configured
ApplyProdOnComputeRack(id) ==
    /\ ApplyAnswered
    /\ apply.firmware_id = Some(id)
    /\ ToLowercase(Unwrap(apply.firmware_type)) = <<"prod">>
    /\ PresentBuckets(ApplyRack) = {1}
    /\ rms_client

\* C20: after create() of the manifest with one compute-tray board exposing
\* HMC(prod) and BMC(prod), one Firmware location each, and a run that
\* fetched every file and recorded the result, the stored lookup table has
\* the one device key "Compute Node", holding "HMC_prod" and "BMC_prod"; an
\* apply() of variant prod on a rack with compute trays only (a client being
\* configured) then sends exactly one batch request, for the compute node
\* type, with targets [/redfish/v1/Chassis/HGX_Chassis_0, FW_BMC_0] and
\* activate true.
C20_EndToEndCompute ==
    \A n \in ComputeManifestRuns :
       /\ db[RunId(n)] # None
             => LET table == Unwrap(Unwrap(db[RunId(n)]).parsed_components)
                IN  /\ Unwrap(db[RunId(n)]).available
                    /\ DOMAIN table.devices = {"Compute Node"}
                    /\ {<<"HMC", "_", "prod">>, <<"BMC", "_", "prod">>}
                          \subseteq DOMAIN table.devices["Compute Node"]
       /\ ApplyProdOnComputeRack(RunId(n))
             => /\ Len(apply.rpcs) = 1
                /\ apply.rpcs[1].node_type = "Compute"
                /\ [i \in 1..Len(apply.rpcs[1].firmware_targets) |->
                       apply.rpcs[1].firmware_targets[i].target]
                      = <<"/redfish/v1/Chassis/HGX_Chassis_0", "FW_BMC_0">>
                /\ apply.rpcs[1].activate

\* the manifest was created, its run recorded the table, and apply() of
\* variant prod on a compute-only rack has answered after its one request
C20_Witness ==
    \E n \in ComputeManifestRuns :
       /\ db[RunId(n)] # None
       /\ ApplyProdOnComputeRack(RunId(n))
       /\ Len(apply.rpcs) = 1
       /\ apply.rpcs[1].answer # None

\* the paths under which the run of the firmware id has a file in its cache
\* directory
FetchedPaths(id) == {DestPath(id, filename) : filename \in fs[id].files}

\* C21 as stated: the file path of every firmware target in a batch request
\* of apply(), whatever its bucket, is the path under which the run of that
\* firmware id stored or found a file.
C21_DispatchedPathsAreFetched ==
    \A k \in 1..Len(ApplyRpcs) :
       \A i \in 1..Len(ApplyRpcs[k].firmware_targets) :
          ApplyRpcs[k].firmware_targets[i].filename
             \in FetchedPaths(Unwrap(apply.firmware_id))

\* the lookup table and the variant apply() works with
ApplyTable ==
    IF apply.pc = "rpc" THEN apply.parsed_components ELSE Unwrap(apply.parsed_components)

ApplyVariant ==
    IF apply.pc = "rpc" THEN apply.firmware_type ELSE Unwrap(apply.firmware_type)

\* the keys of the bucket's entries whose stored variant is the given one
VariantKeys(table, b, variant) ==
    IF BucketKey(b) \notin DOMAIN table.devices THEN {}
    ELSE {key \in DOMAIN table.devices[BucketKey(b)] :
             table.devices[BucketKey(b)][key].firmware_type = variant}

\* the requested variant, whatever its case
RequestedVariant ==
    CASE ApplyVariant \in {<<"prod">>, <<"PROD">>} -> <<"prod">>
      [] ApplyVariant \in {<<"dev">>, <<"DEV">>} -> <<"dev">>

\* C22: a batch request of apply() carries, each once, the target and file
\* of exactly the entries of its bucket whose stored variant is the
\* requested one, case ignored ("PROD" selects what "prod" selects); an
\* entry of another variant is not in it; and a bucket of the rack that has
\* such an entry gets its request when a client is configured.
C22_RequestCarriesRequestedVariant ==
    ApplyInLoop
       => /\ \A k \in 1..Len(apply.rpcs) :
                LET b == NodeRank(apply.rpcs[k].node_type)
                    keys == VariantKeys(ApplyTable, b, RequestedVariant)
                    targets == apply.rpcs[k].firmware_targets
                IN  /\ Len(targets) = Cardinality(keys)
                    /\ {<<targets[i].target, targets[i].filename>> : i \in 1..Len(targets)}
                          = {<<ApplyTable.devices[BucketKey(b)][key].target,
                               FullFirmwarePath(Unwrap(apply.firmware_id),
                                   ApplyTable.devices[BucketKey(b)][key].filename)>> :
                                key \in keys}
          /\ (ApplyAnswered /\ rms_client)
                => \A b \in PresentBuckets(ApplyRack) :
                      VariantKeys(ApplyTable, b, RequestedVariant) # {}
                         => Cardinality(RpcsFor(b)) = 1

\* variant "PROD" was requested of a compute bucket that holds a prod and a
\* dev entry: the request carries the prod entry alone
C22_Witness ==
    /\ ApplyInLoop
    /\ ApplyVariant = <<"PROD">>
    /\ Len(apply.rpcs) >= 1
    /\ apply.rpcs[1].node_type = "Compute"
    /\ VariantKeys(ApplyTable, 1, <<"dev">>) # {}
    /\ Len(apply.rpcs[1].firmware_targets) = 1
    /\ apply.rpcs[1].firmware_targets[1].target = "/redfish/v1/Chassis/HGX_Chassis_0"

\* the step is a create() call: it appends its entry to calls
CreateReturns == Len(calls') = Len(calls) + 1

\* C23 as stated: create() with a manifest that is not valid JSON, that has
\* no BoardSKUs array or that has no identifier is rejected before any side
\* effect: a rejected call stores no credential, persists no record and
\* spawns no run, and no call that is accepted carries a manifest the parser
\* fails on.
C23_MalformedRejected ==
    [][CreateReturns
          => LET call == calls'[Len(calls')]
             IN  /\ call.resp.code = "invalid_argument"
                       => /\ vault' = vault
                          /\ db' = db
                          /\ call.run = NoRun
                 /\ call.resp.code = "ok"
                       => parse_rack_firmware_json(call.resp.config.config) # None]_vars

\* the value of the key, the default when the object has no such key
Field(obj, key, default) == IF key \in DOMAIN obj THEN obj[key] ELSE default

\* the Firmware array of a board of the manifest, empty when it has none
FirmwareOf(board) ==
    IF "Components" \in DOMAIN board /\ "Firmware" \in DOMAIN board.Components
    THEN board.Components.Firmware ELSE <<>>

Parsed == Len(calls) = 1 /\ calls[1].pc = "parsed"

\* C24: the parser fails exactly when the config has no BoardSKUs array;
\* otherwise it gives one board for each BoardSKUs entry, in order, with
\* SKUID, Name and Type read as the empty string when missing, one
\* component for each entry of Components.Firmware and none when Components
\* or Firmware is missing, and a component's locations and subcomponents
\* empty when Locations or SubComponents is missing.
C24_ParserFailsOnlyWithoutBoards ==
    Parsed
       => LET config == calls[1].config
              parsed == calls[1].parsed_components
          IN  /\ parsed = None <=> "BoardSKUs" \notin DOMAIN config
              /\ parsed # None
                    => LET boards == Unwrap(parsed).board_skus
                       IN  /\ Len(boards) = Len(config.BoardSKUs)
                           /\ \A i \in 1..Len(boards) :
                                 LET board == config.BoardSKUs[i]
                                     components == boards[i].firmware_components
                                 IN  /\ boards[i].sku_id = Field(board, "SKUID", <<>>)
                                     /\ boards[i].name = Field(board, "Name", "")
                                     /\ boards[i].sku_type = Field(board, "Type", "")
                                     /\ Len(components) = Len(FirmwareOf(board))
                                     /\ \A j \in 1..Len(components) :
                                           /\ "Locations" \notin DOMAIN FirmwareOf(board)[j]
                                                 => components[j].locations = <<>>
                                           /\ "SubComponents" \notin DOMAIN FirmwareOf(board)[j]
                                                 => components[j].subcomponents = <<>>

\* two boards were parsed in order, the second with no SKUID and no
\* Firmware array
C24_Witness ==
    /\ Parsed
    /\ calls[1].parsed_components # None
    /\ Len(Unwrap(calls[1].parsed_components).board_skus) = 2
    /\ Unwrap(calls[1].parsed_components).board_skus[1].name = "first"
    /\ Unwrap(calls[1].parsed_components).board_skus[2].name = "second"
    /\ Unwrap(calls[1].parsed_components).board_skus[2].sku_id = <<>>
    /\ Unwrap(calls[1].parsed_components).board_skus[2].firmware_components = <<>>

\* the URLs of the entries of a Locations array whose Type is "Firmware", in
\* order ("" for an entry with no Location)
RECURSIVE FirmwareUrls(_)
FirmwareUrls(arr) ==
    IF arr = <<>> THEN <<>>
    ELSE (IF "Type" \in DOMAIN Head(arr) /\ Head(arr).Type = "Firmware"
          THEN <<Field(Head(arr), "Location", <<>>)>> ELSE <<>>)
         \o FirmwareUrls(Tail(arr))

\* what the manifest declares of every Firmware location, board by board,
\* component by component
DeclaredFirmwareUrls(config) ==
    Flatten([i \in 1..Len(config.BoardSKUs) |->
        Flatten([j \in 1..Len(FirmwareOf(config.BoardSKUs[i])) |->
            FirmwareUrls(Field(FirmwareOf(config.BoardSKUs[i])[j], "Locations", <<>>))])])

\* C25: the parser keeps a location exactly when its declared Type is
\* "Firmware": each parsed component holds its Firmware locations, in
\* order, and nothing else (none when it declares only Certificate or Misc
\* locations), so the locations a run spawns its fetch units from are the
\* manifest's Firmware locations only.
C25_OnlyFirmwareLocationsKept ==
    (Parsed /\ calls[1].parsed_components # None)
       => LET config == calls[1].config
              parsed == Unwrap(calls[1].parsed_components)
          IN  /\ \A i \in 1..Len(parsed.board_skus) :
                    \A j \in 1..Len(parsed.board_skus[i].firmware_components) :
                       LET component == parsed.board_skus[i].firmware_components[j]
                           declared == Field(FirmwareOf(config.BoardSKUs[i])[j],
                                             "Locations", <<>>)
                       IN  /\ [k \in 1..Len(component.locations) |->
                                  component.locations[k].location] = FirmwareUrls(declared)
                           /\ \A k \in 1..Len(component.locations) :
                                 component.locations[k].firmware_type = Some("Firmware")
              /\ [k \in 1..Len(AllLocations(parsed)) |-> AllLocations(parsed)[k].location]
                    = DeclaredFirmwareUrls(config)

\* a component that declares a Certificate and a Misc location was parsed
\* with no location
C25_Witness ==
    /\ Parsed
    /\ calls[1].parsed_components # None
    /\ Len(calls[1].config.BoardSKUs) = 1
    /\ Len(FirmwareOf(calls[1].config.BoardSKUs[1])) = 1
    /\ "Locations" \in DOMAIN FirmwareOf(calls[1].config.BoardSKUs[1])[1]
    /\ FirmwareOf(calls[1].config.BoardSKUs[1])[1].Locations
          = <<JsonLocation(UrlCert, "Certificate"), JsonLocation(UrlCert, "Misc")>>
    /\ Unwrap(calls[1].parsed_components).board_skus[1].firmware_components[1].locations
          = <<>>

\* the stretches <<a, b>> of the SKU string between commas (b = a - 1 for
\* an empty one)
Segments(sku_id) ==
    {seg \in (1..(Len(sku_id) + 1)) \X (0..Len(sku_id)) :
        /\ seg[1] <= seg[2] + 1
        /\ seg[1] = 1 \/ sku_id[seg[1] - 1] = ","
        /\ seg[2] = Len(sku_id) \/ sku_id[seg[2] + 1] = ","
        /\ \A i \in seg[1]..seg[2] : sku_id[i] # ","}

\* the stretch without the blanks at its ends
TokenOf(sku_id, seg) ==
    LET inner == {i \in seg[1]..seg[2] : sku_id[i] # " "}
    IN  IF inner = {} THEN <<>>
        ELSE SubSeq(sku_id, CHOOSE i \in inner : \A j \in inner : i <= j,
                            CHOOSE i \in inner : \A j \in inner : i >= j)

Listed(token) == token \in GB200_COMPUTE_TRAY_SKUIDS \cup JULIET_SWITCH_SKUIDS

\* C26: the classifier gives the device type of the first comma-separated
\* token, trimmed, that is in the ComputeTray or the SwitchTray list, and
\* Unknown when no token is in either; "699-24764-0001-TS3,999-FOO" is a
\* ComputeTray and "999-FOO" is Unknown.
C26_FirstListedTokenDecides ==
    (Len(calls) = 1 /\ calls[1].pc = "classified")
       => LET sku_id == calls[1].sku_id
              listed == {seg \in Segments(sku_id) : Listed(TokenOf(sku_id, seg))}
          IN  /\ listed = {} <=> calls[1].device_type = "Unknown"
              /\ listed # {}
                    => LET first == CHOOSE seg \in listed :
                                       \A other \in listed : seg[1] <= other[1]
                       IN  calls[1].device_type
                              = IF TokenOf(sku_id, first) \in GB200_COMPUTE_TRAY_SKUIDS
                                THEN "GB200ComputeTray" ELSE "JulietSwitch"
              /\ sku_id = <<"699-24764-0001-TS3", ",", "999-FOO">>
                    => calls[1].device_type = "GB200ComputeTray"
              /\ sku_id = <<"999-FOO">> => calls[1].device_type = "Unknown"

\* "999-FOO, 920-9K36F-00MV-QS1" was classified a switch
C26_Witness ==
    /\ Len(calls) = 1
    /\ calls[1].pc = "classified"
    /\ calls[1].sku_id = <<"999-FOO", ",", " ", "920-9K36F-00MV-QS1">>
    /\ calls[1].device_type = "JulietSwitch"

\* the tables built so far from the parsed manifest
Tables == IF Len(calls) = 1 /\ calls[1].pc = "parsed" THEN calls[1].tables ELSE <<>>

Built == Tables # <<>>

BuiltBoards == calls[1].parsed_components.board_skus

BuiltDevices == Tables[1].devices

\* the components of a board, as a set of positions
ComponentsOf(board) == 1..Len(board.firmware_components)

\* the boards classified ComputeTray that hold a Power Shelf FW component
ShelfBoards ==
    {i \in 1..Len(BuiltBoards) :
        /\ get_device_type_from_skuid(BuiltBoards[i].sku_id) = "GB200ComputeTray"
        /\ \E j \in ComponentsOf(BuiltBoards[i]) :
              BuiltBoards[i].firmware_components[j].component = "Power Shelf FW"}

\* C28: the table has a "Power Shelf" bucket exactly when a board classified
\* ComputeTray holds a component of the PowerShelf triple set, whether or
\* not that board gave a "Compute Node" entry; the bucket holds Power Shelf
\* entries only and the "Compute Node" bucket holds none of them; a board of
\* another type gives no Power Shelf bucket.
C28_PowerShelfBucketFromComputeBoard ==
    Built
       => /\ "Power Shelf" \in DOMAIN BuiltDevices <=> ShelfBoards # {}
          /\ "Power Shelf" \in DOMAIN BuiltDevices
                => \A key \in DOMAIN BuiltDevices["Power Shelf"] :
                      /\ BuiltDevices["Power Shelf"][key].component = "Power Shelf FW"
                      /\ BuiltDevices["Power Shelf"][key].target = "TODO_POWERSHELF_TARGET"
                      /\ key[1] = "PowerShelfFW"
          /\ "Compute Node" \in DOMAIN BuiltDevices
                => \A key \in DOMAIN BuiltDevices["Compute Node"] :
                      BuiltDevices["Compute Node"][key].component \in {"HMC", "BMC"}

\* a compute-tray board with a Power Shelf FW component and no HMC or BMC
\* entry gave a table with the Power Shelf bucket alone
C28_Witness ==
    /\ Built
    /\ Len(BuiltBoards) = 1
    /\ DOMAIN BuiltDevices = {"Power Shelf"}
    /\ DOMAIN BuiltDevices["Power Shelf"]
          = {<<"PowerShelfFW", "_", "prod">>, <<"PowerShelfFW", "_", "dev">>}

\* the variant of a parsed component: what the manifest states, lowercased,
\* prod when it states none
VariantOf(component) ==
    CASE component.component_type = None -> <<"prod">>
      [] component.component_type = Some(<<"Prod">>) -> <<"prod">>
      [] component.component_type = Some(<<"Dev">>) -> <<"dev">>

\* the lookup keys under which a component name is stored
LookupKeysOf(name) ==
    CASE name \in {"HMC", "BMC"} -> {name}
      [] name = "Power Shelf FW" -> {"PowerShelfFW"}
      [] name = "BMC+FPGA+EROT" -> {"BMC", "FPGA", "EROT"}
      [] name = "SBIOS+EROT" -> {"BIOS"}
      [] OTHER -> {}

\* C29: every entry of the table is stored under "{lookup_key}_{variant}",
\* the variant being the stored variant of the entry: the variant of a
\* component of that name in the manifest, lowercased, prod when the
\* manifest states none; a prod and a dev build of one component on a board
\* are both in the bucket.
C29_KeyCarriesVariant ==
    Built
       => /\ \A device \in DOMAIN BuiltDevices :
                \A key \in DOMAIN BuiltDevices[device] :
                   LET entry == BuiltDevices[device][key]
                   IN  /\ Len(key) = 3
                       /\ key[2] = "_"
                       /\ key[1] \in LookupKeysOf(entry.component)
                       /\ <<key[3]>> = entry.firmware_type
                       /\ entry.firmware_type \in {<<"prod">>, <<"dev">>}
                       /\ \E i \in 1..Len(BuiltBoards) :
                             \E j \in ComponentsOf(BuiltBoards[i]) :
                                LET component == BuiltBoards[i].firmware_components[j]
                                IN  /\ component.component = entry.component
                                    /\ VariantOf(component) = entry.firmware_type
          /\ (/\ Len(BuiltBoards) = 1
              /\ get_device_type_from_skuid(BuiltBoards[1].sku_id) = "GB200ComputeTray")
                => \A j \in ComponentsOf(BuiltBoards[1]) :
                      LET component == BuiltBoards[1].firmware_components[j]
                      IN  (component.component \in {"HMC", "BMC"}
                             /\ component.locations # <<>>)
                             => /\ "Compute Node" \in DOMAIN BuiltDevices
                                /\ <<component.component, "_">> \o VariantOf(component)
                                      \in DOMAIN BuiltDevices["Compute Node"]

\* a board with a Prod and a Dev build of HMC gave a bucket with both
C29_Witness ==
    /\ Built
    /\ Len(BuiltBoards) = 1
    /\ "Compute Node" \in DOMAIN BuiltDevices
    /\ DOMAIN BuiltDevices["Compute Node"] = {<<"HMC", "_", "prod">>, <<"HMC", "_", "dev">>}
    /\ BuiltBoards[1].firmware_components[1].component_type = Some(<<"Prod">>)
    /\ BuiltBoards[1].firmware_components[2].component_type = Some(<<"Dev">>)

\* the board is classified to a known device type
KnownBoard(board) == get_device_type_from_skuid(board.sku_id) # "Unknown"

\* C30: the table has no empty bucket; a board classified Unknown gives no
\* bucket and no entry, and the table is still built: it is the table of
\* the manifest's other boards.
C30_NoEmptyBucket ==
    Built
       => /\ \A device \in DOMAIN BuiltDevices : DOMAIN BuiltDevices[device] # {}
          /\ (\A i \in 1..Len(BuiltBoards) : ~KnownBoard(BuiltBoards[i]))
                => BuiltDevices = EmptyMap
          /\ Tables[1] = build_firmware_lookup_table(
                            [board_skus |-> SelectSeq(BuiltBoards, KnownBoard)])

\* an Unknown board with an HMC component, followed by a switch board whose
\* component resolved: the table has the Switch Tray bucket alone
C30_Witness ==
    /\ Built
    /\ Len(BuiltBoards) = 2
    /\ ~KnownBoard(BuiltBoards[1])
    /\ BuiltBoards[1].firmware_components # <<>>
    /\ BuiltBoards[1].firmware_components[1].component = "HMC"
    /\ DOMAIN BuiltDevices = {"Switch Tray"}

\* a get_job_status() call has ended
JobEnded == apply.pc = "job_done"

\* C31: get_job_status with an empty job_id fails with an invalid-argument
\* error, and with a job_id but no fleet-management client it fails with a
\* precondition error; in both cases no request is forwarded to the fleet
\* manager.
C31_JobPreconditions ==
    /\ (JobEnded /\ apply.job_id = "")
          => apply.resp.code = "invalid_argument" /\ apply.rms_requests = <<>>
    /\ (JobEnded /\ apply.job_id # "" /\ ~rms_client)
          => apply.resp.code = "failed_precondition" /\ apply.rms_requests = <<>>
    /\ (apply.pc = "job_rpc") => (apply.job_id # "" /\ rms_client)

\* an empty job_id was asked of a handler that has a client
C31_Witness ==
    /\ JobEnded
    /\ apply.job_id = ""
    /\ rms_client
    /\ apply.resp.code = "invalid_argument"
    /\ apply.rms_requests = <<>>

\* C31 as stated: both failures are precondition errors.
C31_BothPreconditionErrors ==
    (JobEnded /\ (apply.job_id = "" \/ ~rms_client))
       => apply.resp.code = "failed_precondition" /\ apply.rms_requests = <<>>

\* C32: get_job_status forwards the job_id unchanged in one request; an
\* answered call maps the code 0 to QUEUED, 1 to RUNNING, 2 to COMPLETED,
\* 3 to FAILED and every other 32-bit integer to UNKNOWN, and returns the
\* six other fields of the remote response as they came.
C32_JobStatusMapping ==
    /\ (apply.pc \in {"job_rpc", "job_done"} /\ apply.rms_requests # <<>>)
          => apply.rms_requests = <<[metadata |-> None, job_id |-> apply.job_id]>>
    /\ (JobEnded /\ apply.resp.code = "ok")
          => LET remote == Unwrap(apply.rms_response)
                 resp == apply.resp
             IN  /\ resp.state = "QUEUED" <=> remote.job_state = 0
                 /\ resp.state = "RUNNING" <=> remote.job_state = 1
                 /\ resp.state = "COMPLETED" <=> remote.job_state = 2
                 /\ resp.state = "FAILED" <=> remote.job_state = 3
                 /\ resp.state = "UNKNOWN" <=> remote.job_state \notin 0..3
                 /\ resp.job_id = remote.job_id
                 /\ resp.state_description = remote.state_description
                 /\ resp.rack_id = remote.rack_id
                 /\ resp.node_id = remote.node_id
                 /\ resp.error_message = remote.error_message
                 /\ resp.result_json = remote.result_json

\* the fleet manager answered a negative code and another job id than the
\* one asked for
C32_Witness ==
    /\ JobEnded
    /\ apply.resp.code = "ok"
    /\ Unwrap(apply.rms_response).job_state = -1
    /\ apply.resp.state = "UNKNOWN"
    /\ apply.job_id = "job1"
    /\ apply.resp.job_id = "job2"
    /\ apply.resp.state_description = "failed"
    /\ apply.resp.error_message = "timeout"


\* the entry of a Switch Tray bucket under a lookup key and the variant of a
\* component has the target
SwitchEntry(component, lookup_key, target) ==
    LET key == <<lookup_key, "_">> \o VariantOf(component)
    IN  /\ "Switch Tray" \in DOMAIN BuiltDevices
        /\ key \in DOMAIN BuiltDevices["Switch Tray"]
        /\ BuiltDevices["Switch Tray"][key].target = target

\* C33: for a board classified SwitchTray every triple of the switch table
\* is honoured: a BMC+FPGA+EROT component with a retained Firmware location
\* gives the entries BMC, FPGA and EROT of its variant with the targets bmc,
\* fpga and erot, and an SBIOS+EROT component gives BIOS with target bios.
C33_SwitchTriplesHonoured ==
    (/\ Built
     /\ Len(BuiltBoards) = 1
     /\ get_device_type_from_skuid(BuiltBoards[1].sku_id) = "JulietSwitch")
       => \A j \in ComponentsOf(BuiltBoards[1]) :
             LET component == BuiltBoards[1].firmware_components[j]
             IN  /\ (component.component = "BMC+FPGA+EROT" /\ component.locations # <<>>)
                       => /\ SwitchEntry(component, "BMC", "bmc")
                          /\ SwitchEntry(component, "FPGA", "fpga")
                          /\ SwitchEntry(component, "EROT", "erot")
                 /\ (component.component = "SBIOS+EROT" /\ component.locations # <<>>)
                       => SwitchEntry(component, "BIOS", "bios")


\* a sequence in another order
Permuted(seq, order) == [i \in 1..Len(seq) |-> seq[order[i]]]

\* the table of the manifest with its boards in another order
TableOfBoardsPermuted(order) ==
    build_firmware_lookup_table([board_skus |-> Permuted(BuiltBoards, order)])

\* the table of the manifest with the components of one board in another order
TableOfComponentsPermuted(i, order) ==
    build_firmware_lookup_table(
        [board_skus |-> [BuiltBoards EXCEPT
                            ![i].firmware_components = Permuted(@, order)]])

\* C34: the lookup table does not depend on the order of the boards, nor on
\* the order of the components of a board, also when two boards classify to
\* the same device type or two components share a name and variant.
C34_OrderIrrelevant ==
    Built
       => /\ \A order \in Orders(1..Len(BuiltBoards)) :
                TableOfBoardsPermuted(order) = Tables[1]
          /\ \A i \in 1..Len(BuiltBoards) :
                \A order \in Orders(ComponentsOf(BuiltBoards[i])) :
                   TableOfComponentsPermuted(i, order) = Tables[1]


\* the entry is built from a component of the manifest of its name and
\* variant, and its filename is the final path segment of the first
\* location the parser kept for that component
FilenameFromFirstLocation(entry) ==
    \E i \in 1..Len(BuiltBoards) :
       \E j \in ComponentsOf(BuiltBoards[i]) :
          LET component == BuiltBoards[i].firmware_components[j]
          IN  /\ component.component = entry.component
              /\ VariantOf(component) = entry.firmware_type
              /\ component.locations # <<>>
              /\ component.locations[1].firmware_type = Some("Firmware")
              /\ Some(entry.filename)
                    = NextBack(Split(component.locations[1].location, "/"))

\* the manifest is one known board whose components have no location
OneBoardWithoutLocations ==
    /\ Len(BuiltBoards) = 1
    /\ KnownBoard(BuiltBoards[1])
    /\ \A j \in ComponentsOf(BuiltBoards[1]) :
          BuiltBoards[1].firmware_components[j].locations = <<>>

\* C35: every entry of the table, in every bucket including Power Shelf,
\* has as filename the final path segment of the first retained Firmware
\* location of the component it was built from; a matching component with
\* no retained location gives no entry.
C35_FilenameOfFirstLocation ==
    Built
       => /\ \A device \in DOMAIN BuiltDevices :
                \A key \in DOMAIN BuiltDevices[device] :
                   FilenameFromFirstLocation(BuiltDevices[device][key])
          /\ OneBoardWithoutLocations => BuiltDevices = EmptyMap


\* every fetch unit of the run was spawned, reached a terminal outcome and
\* was joined
AllUnitsTerminal(run) ==
    /\ run.pc = "done"
    /\ Len(run.units) = Len(AllLocations(Unwrap(run.parsed)))
    /\ \A u \in 1..Len(run.units) :
          run.units[u].pc = "joined" /\ run.units[u].outcome \in Terminal

\* C36: a config is available only after every fetch unit of its run has
\* reached its terminal outcome: in no reachable state is the config
\* available while a unit of its run is unspawned or in flight.
C36_FlipAfterAllUnits ==
    \A n \in OkCalls :
       (db[RunId(n)] # None /\ Unwrap(db[RunId(n)]).available)
          => AllUnitsTerminal(RunOf(n))

\* a config is available after a run of two units
C36_Witness ==
    \E n \in OkCalls :
       /\ db[RunId(n)] # None
       /\ Unwrap(db[RunId(n)]).available
       /\ Len(RunOf(n).units) = 2
       /\ AllUnitsTerminal(RunOf(n))


\* the step is the last one of the run of call n, for the id, after a
\* tally without a failure
RunCompletes(n, id) ==
    /\ calls[n].id = Some(id)
    /\ RunOf(n).pc = "join"
    /\ RunOf(n).failed_downloads = 0
    /\ calls'[n].run.pc = "done"

\* the step is a get() call for the id, with its answer
GetAnswers(id) ==
    /\ HandlerIdle
    /\ apply' # apply
    /\ apply'.pc = "get_done"
    /\ apply'.id = id

\* the step is an apply() call for the id that answers at once
ApplyAnswers(id) ==
    /\ HandlerIdle
    /\ apply' # apply
    /\ apply'.pc = "done"
    /\ apply'.firmware_id = Some(id)

\* C37: once delete(id) has committed the record stays absent: the
\* completion of a run of that id that was in flight, also with zero
\* failures, does not re-create it and is not failed by the missing row
\* (the run ends Ok when its transaction commits), and get() and apply()
\* for that id fail.
C37_DeletedStaysAbsent ==
    [][\A id \in FirmwareIds :
          db[id] = None
             => /\ db'[id] = None
                /\ \A n \in Calls :
                      RunCompletes(n, id)
                         => calls'[n].run.result
                               \in {"Ok", "Failed to commit transaction"}
                /\ GetAnswers(id) => apply'.resp.code = "error"
                /\ ApplyAnswers(id)
                      => apply'.resp.code = "internal" /\ apply'.rpcs = <<>>]_vars

\* the config was deleted, its run has fetched two files and ended Ok with
\* zero failures, and a get() of the id has failed; reached by a delete()
\* during the join loop
C37_Witness ==
    /\ Len(calls) = 1
    /\ db[RunId(1)] = None
    /\ RunOf(1).pc = "done"
    /\ RunOf(1).result = "Ok"
    /\ RunOf(1).failed_downloads = 0
    /\ RunOf(1).successful_downloads = 2
    /\ apply.pc = "get_done"
    /\ apply.resp.code = "error"


\* the config of the id is stored and available
Available(id) == db[id] # None /\ Unwrap(db[id]).available

\* C38: availability is monotonic: no step of the background run, of
\* apply, get, list or get_job_status changes an available config, neither
\* its flag nor its persisted lookup table; the only step that ends its
\* availability is delete(), which removes the record.
C38_AvailabilityMonotonic ==
    [][\A id \in FirmwareIds :
          Available(id)
             => \/ db'[id] = db[id]
                \/ /\ db'[id] = None
                   /\ UNCHANGED <<vault, fs, calls, rms_client, apply>>]_vars

\* list(only_available) has answered the available config with its table
C38_Witness ==
    /\ \E id \in FirmwareIds :
          /\ Available(id)
          /\ Unwrap(db[id]).parsed_components
                = Some(build_firmware_lookup_table(Unwrap(RunOf(1).parsed)))
          /\ apply.pc = "list_done"
          /\ apply.only_available
          /\ apply.resp.code = "ok"
          /\ apply.resp.configs = {Unwrap(db[id])}


\* the create() call stored a record without parsed components
StoredUnparsed(n) ==
    calls[n].resp.code = "ok" /\ calls[n].resp.config.parsed_components = None

\* C39: a run exists only for a create() whose transaction committed and
\* whose manifest parsed: a create() that fails on the credential store or
\* on the record spawns no run, and a config stored without parsed
\* components has no run and is never available.
C39_SpawnAfterCommitOfParsed ==
    \A n \in Calls :
       /\ RunOf(n) # NoRun
             => /\ calls[n].resp.code = "ok"
                /\ calls[n].resp.config.parsed_components # None
                /\ RunOf(n).parsed = calls[n].resp.config.parsed_components
       /\ calls[n].resp.code # "ok" => RunOf(n) = NoRun
       /\ StoredUnparsed(n)
             => /\ RunOf(n) = NoRun
                /\ db[RunId(n)] # None => ~Unwrap(db[RunId(n)]).available

\* a create() failed on the record after the credential was stored, and a
\* second one stored the manifest without parsed components: neither has a
\* run, the record is not available
C39_Witness ==
    /\ Len(calls) = 2
    /\ calls[1].id # None
    /\ calls[1].resp.code = "internal"
    /\ vault[RunId(1)] # None
    /\ RunOf(1) = NoRun
    /\ StoredUnparsed(2)
    /\ RunOf(2) = NoRun
    /\ db[RunId(2)] # None
    /\ ~Unwrap(db[RunId(2)]).available


\* the keys of the bucket of a request that hold the requested variant
RpcKeys(k) == VariantKeys(ApplyTable, NodeRank(apply.rpcs[k].node_type), RequestedVariant)

RpcBucket(k) == BucketKey(NodeRank(apply.rpcs[k].node_type))

RpcTarget(k, key) == ApplyTable.devices[RpcBucket(k)][key].target

\* every iteration order of the bucket's map gives the targets of the request
SameTargetsInEveryOrder(k) ==
    \A unsorted \in find_firmware_components_for_device(
                        ApplyTable, RpcBucket(k), ApplyVariant) :
       FirmwareTargets(Unwrap(apply.firmware_id),
                       SortByFlashOrder(unsorted, get_firmware_flash_order(RpcBucket(k))))
          = apply.rpcs[k].firmware_targets

\* no two entries of the requested variant have one target
DistinctTargets(k) ==
    \A key1, key2 \in RpcKeys(k) :
       RpcTarget(k, key1) = RpcTarget(k, key2) => key1 = key2

\* every entry of the requested variant has a rank in the flash order
RankedTargets(k) ==
    \A key \in RpcKeys(k) :
       Position(get_firmware_flash_order(RpcBucket(k)), RpcTarget(k, key)) # None

\* C40 as stated: the targets sent for a bucket and variant do not depend on
\* the iteration order of the table's maps, because within one bucket and
\* variant all targets are distinct and ranked by the flash-order list.
C40_DeterminedByDistinctRankedTargets ==
    \A k \in 1..Len(ApplyRpcs) :
       SameTargetsInEveryOrder(k) /\ DistinctTargets(k) /\ RankedTargets(k)

\* C40 amended: the targets sent for a bucket and variant do not depend on
\* the iteration order of the table's maps: within one bucket and variant
\* all targets are distinct, and they are ranked by the flash-order list in
\* the Compute Node and Switch Tray buckets, while the Power Shelf bucket,
\* whose target has no rank, holds one entry of a variant.
C40_DeterminedByEntries ==
    \A k \in 1..Len(ApplyRpcs) :
       /\ SameTargetsInEveryOrder(k)
       /\ DistinctTargets(k)
       /\ RpcBucket(k) # "Power Shelf" => RankedTargets(k)
       /\ RpcBucket(k) = "Power Shelf"
             => Cardinality(RpcKeys(k)) = 1 /\ ~RankedTargets(k)

\* a request for the Switch Tray bucket went out with the two entries of
\* the requested variant, bmc before bios
C40_Witness ==
    \E k \in 1..Len(ApplyRpcs) :
       /\ RpcBucket(k) = "Switch Tray"
       /\ Cardinality(RpcKeys(k)) = 2
       /\ Len(apply.rpcs[k].firmware_targets) = 2
       /\ apply.rpcs[k].firmware_targets[1].target = "bmc"
       /\ apply.rpcs[k].firmware_targets[2].target = "bios"


====
